---- MODULE Spec2Model ----
(***************************************************************************)
(* Multi-agent orchestration core of mcp-client-for-ollama:                *)
(*   agents/communication.py  MessageBroker, AgentMessage                  *)
(*   agents/orchestrator.py   AgentOrchestrator, Task                      *)
(*   agents/base.py           SubAgent messaging and autonomous loop       *)
(* asyncio is cooperative: every action below is one stretch of code that  *)
(* runs between two suspension points of the event loop.                   *)
(***************************************************************************)
EXTENDS Integers, Sequences, FiniteSets, TLC

\* ------------------------------------------------------------------ bounds
MaxMsgs == 2        \* messages the broker's callers construct
max_history == 1    \* MessageBroker.max_history (1000 in the source), scaled
MaxCalls == 1       \* execute_task activations suspended in the contract
MaxOrchMsgs == 1    \* task-request messages the orchestrator constructs
MaxLoops == 2       \* _message_listener tasks start_autonomous_mode creates
short_term_limit == 3 \* the short-term size consolidation starts above (50 in the source), scaled
short_term_keep == 2  \* the recent entries consolidation keeps (20 in the source), scaled
max_size == 4       \* AgentMemory.max_size (1000 by default), scaled
MaxAdds == 6        \* add_memory calls on one AgentMemory
MaxSubscribers == 2 \* callbacks subscribed to one name
MaxSaved == 2       \* add_memory calls on an AgentMemory that is saved and loaded

\* --------------------------------------------------------------- constants
None == "None"
Names == {"a1", "a2"}
Orchestrator == "orchestrator"
Priorities == {1, 5}
ThreadIds == {None, "th1"}
Callbacks == {"cb_raise"}        \* a subscriber callback; this one raises
NotifyCallbacks == {"cb_raise", "cb_ok"}   \* and one that returns normally
TASK_REQUEST == "task_request"
TASK_RESPONSE == "task_response"
INFORMATION_SHARE == "information_share"
COLLABORATION_REQUEST == "collaboration_request"
STATUS_UPDATE == "status_update"
ERROR_REPORT == "error_report"
PENDING == "pending"
ASSIGNED == "assigned"
IN_PROGRESS == "in_progress"
COMPLETED == "completed"
FAILED == "failed"
DELEGATED == "delegated"
TaskStatus == {PENDING, ASSIGNED, IN_PROGRESS, COMPLETED, FAILED, DELEGATED}
\* task descriptions, lower-cased and cut into the words the scoring looks for
Descriptions == {{"review", "code"}}
TaskIds == {1, 2}   \* the ids uuid4 hands to create_task, in order
\* type(agent).__name__ of the agent object registered under each name
AgentClass == [a1 |-> "SubAgent", a2 |-> "ReviewerAgent"]
\* capability lists the callers register each agent with
Capabilities == [a1 |-> <<>>, a2 |-> <<"Review">>]
UnknownTask == 0    \* a task id that is not in the task store
Results == {"result"}
Errors == {"boom"}
NowStamp == "now"   \* a value of datetime.now()
TaskTexts == {"", "job"}   \* the task argument of delegate_task
HandlerTypes == {TASK_REQUEST}  \* types callers register custom handlers for
important == 3      \* the importance consolidation copies to long-term from
Importances == {1, 3}
\* inputs of select_agent_for_task: descriptions as Descriptions has them
ReviewTask == {"review", "code"}      \* "please review this code"
WriteTestsTask == {"write", "test"}   \* "write tests"
Greeting == {}                        \* "hello"
TaskDescriptions == {ReviewTask, WriteTestsTask, Greeting}
AgentTypes == {"SubAgent", "ReviewerAgent", "CoderAgent", "TesterAgent"}
CapabilityLists == {<<>>, <<"Review">>, <<"python">>, <<"write", "test">>}
MessageType == {TASK_REQUEST, TASK_RESPONSE, INFORMATION_SHARE,
                COLLABORATION_REQUEST, STATUS_UPDATE, ERROR_REPORT}

VARIABLES
  \* MessageBroker
  message_queues,   \* dict name -> asyncio.Queue (a FIFO sequence)
  subscribers,      \* dict name -> list of callbacks
  message_history,  \* list of AgentMessage, at most max_history long
  next_msg_id,      \* next fresh AgentMessage.id
  \* observation of the broker's interface
  sent_log,         \* name -> the successful sends into the current mailbox
  recv_log,         \* name -> the messages receive_message returned from it
  notify_log,       \* subscriber invocations <<callback, message id>>
  ret,              \* the last send/receive/assign/execute and what it returned
  \* AgentOrchestrator
  agents,           \* dict name -> SubAgent, as the list of its keys in order
  agent_capabilities, \* dict name -> list of capability tags
  tasks,            \* dict task id -> Task; ids are 1..Len(tasks)
  calls,            \* execute_task activations suspended in agent.execute_task
  active_workflows, \* dict workflow id -> list of task ids
  wf,               \* the activation of execute_workflow, if any
  \* SubAgent (base.py), per agent name
  constructed,      \* the names SubAgent.__init__ has run for
  message_handlers, \* name -> the message types with a custom handler
  is_autonomous,    \* name -> bool
  listener,         \* name -> _message_listener_task: 0 is None, else a task
  loops,            \* the _message_listener tasks ever created, in order
  cleanup_pc,       \* name -> where cleanup() of that agent stands
  contract_log,     \* execute_task calls made by default handling
  handled_log,      \* messages whose _handle_message call has ended
  \* callers suspended in MessageBroker.receive_message(name, timeout)
  receivers,        \* name -> "none", "waiting" or "expired"
  \* one AgentMemory and the file it is saved to
  short_term,       \* list of MemoryEntry, in the order they were added
  long_term,        \* list of MemoryEntry
  working_memory,   \* dict key -> value
  mem_adds,         \* add_memory calls so far; gives uuid4 and datetime.now()
  consolidations,   \* _consolidate_memories calls so far
  mem_ret,          \* what the last AgentMemory operation returned
  mem_file,         \* the document at the save path, or its absence
  \* AgentOrchestrator, continued
  agent_type,       \* name -> type(agent).__name__ of the object in `agents`
  selection,        \* the last select_agent_for_task call and what it returned
  workload,         \* the last get_agent_workload call and what it returned
  conversation      \* the last get_conversation_history call and its result

brokerVars == <<message_queues, subscribers, message_history, next_msg_id>>
obsVars == <<sent_log, recv_log, notify_log, ret>>
orchVars == <<agents, agent_capabilities, tasks, calls>>
wfVars == <<active_workflows, wf>>
loopVars == <<constructed, message_handlers, is_autonomous, listener, loops,
              cleanup_pc, contract_log, handled_log>>
recvVars == <<receivers>>
memVars == <<short_term, long_term, working_memory, mem_adds, consolidations,
             mem_ret, mem_file>>
queryVars == <<agent_type, selection, workload, conversation>>
vars == <<brokerVars, obsVars, orchVars, wfVars, loopVars, recvVars, memVars,
          queryVars>>

\* ---------------------------------------------------------------- helpers
Range(s) == {s[i] : i \in 1..Len(s)}
Put(f, k, v) == [x \in DOMAIN f \cup {k} |-> IF x = k THEN v ELSE f[x]]
Drop(f, k) == [x \in DOMAIN f \ {k} |-> f[x]]
Get(f, k, d) == IF k \in DOMAIN f THEN f[k] ELSE d
\* what an operation returned: a truth value, a text and/or an id
Ret(op, ok, val, id) == [op |-> op, ok |-> ok, val |-> val, id |-> id]
RemoveAt(s, i) == SubSeq(s, 1, i - 1) \o SubSeq(s, i + 1, Len(s))
Index(s, x) == CHOOSE i \in 1..Len(s) : s[i] = x /\ \A j \in 1..(i - 1) : s[j] # x

\* AgentMessage(...): id is a fresh uuid, timestamp is not modelled
AgentMessage(id, sender, recipient, message_type, content, thread_id, priority) ==
  [id |-> id, sender |-> sender, recipient |-> recipient,
   message_type |-> message_type, content |-> content,
   thread_id |-> thread_id, priority |-> priority]

\* ------------------------------------------------------------ MessageBroker
\* (a queue that orders by the priority field, higher first)
Queue_put_by_priority(q, m) ==
  LET k == Cardinality({i \in 1..Len(q) : q[i].priority >= m.priority})
  IN SubSeq(q, 1, k) \o <<m>> \o SubSeq(q, k + 1, Len(q))

\* asyncio.Queue.put on an unbounded queue: append at the tail, no suspension
Queue_put(q, m) == Append(q, m)

\* asyncio.Queue.get on a non-empty queue: the head
Queue_get(q) == Head(q)

\* send_message, line 86: the recipient test
send_ok(m) == m.recipient \in DOMAIN message_queues

\* send_message, line 89
queues_after_send(m) ==
  IF send_ok(m)
  THEN [message_queues EXCEPT ![m.recipient] = Queue_put(@, m)]
  ELSE message_queues

\* (the history append moved above the recipient test)
history_after_send_unguarded(m) ==
  LET h == Append(message_history, m)
  IN IF Len(h) > max_history THEN Tail(h) ELSE h

\* (pop() for pop(0): the newest message is dropped, not the oldest)
history_after_send_drop_newest(m) ==
  IF send_ok(m)
  THEN LET h == Append(message_history, m)
       IN IF Len(h) > max_history THEN SubSeq(h, 1, Len(h) - 1) ELSE h
  ELSE message_history

\* send_message, lines 92-94
history_after_send(m) ==
  IF send_ok(m)
  THEN LET h == Append(message_history, m)
       IN IF Len(h) > max_history THEN Tail(h) ELSE h
  ELSE message_history

\* whether awaiting the callback raises an Exception
Raises(cb) == cb = "cb_raise"

\* (no try/except around the callback: the first raise ends the loop)
notify_after_send_until_raise(m) ==
  IF send_ok(m)
  THEN LET cbs == Get(subscribers, m.recipient, <<>>)
           stop == IF \E i \in 1..Len(cbs) : Raises(cbs[i])
                   THEN CHOOSE i \in 1..Len(cbs) :
                          Raises(cbs[i]) /\ \A j \in 1..(i - 1) : ~Raises(cbs[j])
                   ELSE Len(cbs)
       IN notify_log \o [i \in 1..stop |-> <<cbs[i], m.id>>]
  ELSE notify_log

\* send_message, lines 97-101: every callback is awaited, a raise is swallowed
notify_after_send(m) ==
  IF send_ok(m)
  THEN LET cbs == Get(subscribers, m.recipient, <<>>)
       IN notify_log \o [i \in 1..Len(cbs) |-> <<cbs[i], m.id>>]
  ELSE notify_log

sent_after_send(m) ==
  IF send_ok(m)
  THEN [sent_log EXCEPT ![m.recipient] = Append(@, m)]
  ELSE sent_log

\* the whole of MessageBroker.send_message as a state change
BrokerSend(m) ==
  /\ message_queues' = queues_after_send(m)
  /\ message_history' = history_after_send(m)
  /\ notify_log' = notify_after_send(m)
  /\ sent_log' = sent_after_send(m)
  /\ next_msg_id' = next_msg_id + 1
  /\ UNCHANGED subscribers

\* register_agent, lines 63-65: a new mailbox and a new subscriber list for a
\* name that has no mailbox
queues_after_register_always(a) == Put(message_queues, a, <<>>)

queues_after_register(a) ==
  IF a \notin DOMAIN message_queues THEN Put(message_queues, a, <<>>)
  ELSE message_queues

subscribers_after_register(a) ==
  IF a \notin DOMAIN message_queues THEN Put(subscribers, a, <<>>)
  ELSE subscribers

\* the effect of MessageBroker.register_agent on the broker
register_with_broker(a) ==
  /\ message_queues' = queues_after_register(a)
  /\ subscribers' = subscribers_after_register(a)

MB_register_agent(a) ==
  /\ register_with_broker(a)
  /\ UNCHANGED <<message_history, next_msg_id, sent_log, recv_log, notify_log, ret>>
  /\ UNCHANGED <<orchVars, wfVars, loopVars, recvVars, memVars, queryVars>>

MB_unregister_agent(a) ==
  /\ IF a \in DOMAIN message_queues
     THEN /\ message_queues' = Drop(message_queues, a)
          /\ subscribers' = Drop(subscribers, a)
          /\ sent_log' = [sent_log EXCEPT ![a] = <<>>]
          /\ recv_log' = [recv_log EXCEPT ![a] = <<>>]
     ELSE UNCHANGED <<message_queues, subscribers, sent_log, recv_log>>
  /\ UNCHANGED <<message_history, next_msg_id, notify_log, ret>>
  /\ UNCHANGED <<orchVars, wfVars, loopVars, recvVars, memVars, queryVars>>

MB_send_message(m) ==
  /\ next_msg_id <= MaxMsgs
  /\ m.id = next_msg_id
  /\ BrokerSend(m)
  /\ ret' = Ret("send_message", send_ok(m), None, 0)
  /\ UNCHANGED <<recv_log, orchVars, wfVars, loopVars, recvVars, memVars, queryVars>>

\* receive_message when a message is available (with or without timeout)
MB_receive_message(a) ==
  /\ a \in DOMAIN message_queues
  /\ message_queues[a] # <<>>
  /\ LET m == Queue_get(message_queues[a])
     IN /\ message_queues' = [message_queues EXCEPT ![a] = Tail(@)]
        /\ recv_log' = [recv_log EXCEPT ![a] = Append(@, m)]
        /\ ret' = Ret("receive_message", TRUE, None, m.id)
  /\ UNCHANGED <<subscribers, message_history, next_msg_id, sent_log, notify_log>>
  /\ UNCHANGED <<orchVars, wfVars, loopVars, recvVars, memVars, queryVars>>

\* receive_message that returns None: unknown agent (line 116) or the
\* timeout fired on an empty queue (line 128)
MB_receive_none(a) ==
  /\ Get(message_queues, a, <<>>) = <<>>
  /\ ret' = Ret("receive_message", FALSE, None, 0)
  /\ UNCHANGED <<brokerVars, sent_log, recv_log, notify_log, orchVars, wfVars, loopVars, recvVars, memVars, queryVars>>

\* subscribe, lines 137-139
Subscribe(a, cb) ==
  /\ subscribers' = Put(subscribers, a, Append(Get(subscribers, a, <<>>), cb))
  /\ UNCHANGED <<message_queues, message_history, next_msg_id,
                 sent_log, recv_log, notify_log, ret, orchVars, wfVars, loopVars, recvVars, memVars, queryVars>>

\* (callers subscribe at most one callback per name)
MB_subscribe(a, cb) ==
  /\ Get(subscribers, a, <<>>) = <<>>
  /\ Subscribe(a, cb)

\* callers subscribe several callbacks to a name, the same one twice too
MB_subscribe_more(a, cb) ==
  /\ Len(Get(subscribers, a, <<>>)) < MaxSubscribers
  /\ Subscribe(a, cb)

\* list[-limit:] as Python slices it: the last `limit` items, and the whole
\* list for a limit of 0, because -0 is 0
LastItems(s, limit) ==
  IF limit = 0 \/ Len(s) <= limit THEN s
  ELSE SubSeq(s, Len(s) - limit + 1, Len(s))

\* get_conversation_history, lines 165-170
get_conversation_history(agent1, agent2, limit) ==
  LET Between(msg) ==
        \/ msg.sender = agent1 /\ msg.recipient = agent2
        \/ msg.sender = agent2 /\ msg.recipient = agent1
  IN LastItems(SelectSeq(message_history, Between), limit)

\* no get_conversation_history call has returned yet
NoConversation ==
  [called |-> FALSE, agent1 |-> None, agent2 |-> None, limit |-> 0, val |-> <<>>]

\* get_conversation_history called: it only reads
MB_get_conversation_history(agent1, agent2, limit) ==
  /\ conversation' =
       [called |-> TRUE, agent1 |-> agent1, agent2 |-> agent2, limit |-> limit,
        val |-> get_conversation_history(agent1, agent2, limit)]
  /\ UNCHANGED <<brokerVars, obsVars, orchVars, wfVars, loopVars, recvVars,
                 memVars, agent_type, selection, workload>>

\* receive_message with a timeout, lines 115-123: the caller suspends in
\* asyncio.wait_for(queue.get(), timeout)
MB_receive_begin(a) ==
  /\ a \in DOMAIN message_queues
  /\ receivers[a] = "none"
  /\ receivers' = [receivers EXCEPT ![a] = "waiting"]
  /\ UNCHANGED <<brokerVars, obsVars, orchVars, wfVars, loopVars, memVars, queryVars>>

\* the suspended queue.get() finds a message: wait_for returns it (line 125)
MB_receive_wake(a) ==
  /\ receivers[a] = "waiting"
  /\ Get(message_queues, a, <<>>) # <<>>
  /\ LET m == Queue_get(message_queues[a])
     IN /\ message_queues' = [message_queues EXCEPT ![a] = Tail(@)]
        /\ recv_log' = [recv_log EXCEPT ![a] = Append(@, m)]
        /\ ret' = Ret("receive_message", TRUE, None, m.id)
  /\ receivers' = [receivers EXCEPT ![a] = "none"]
  /\ UNCHANGED <<subscribers, message_history, next_msg_id, sent_log, notify_log>>
  /\ UNCHANGED <<orchVars, wfVars, loopVars, memVars, queryVars>>

\* the timer of wait_for fires: queue.get() is cancelled, the caller is
\* scheduled to resume with TimeoutError
MB_receive_expire(a) ==
  /\ receivers[a] = "waiting"
  /\ receivers' = [receivers EXCEPT ![a] = "expired"]
  /\ UNCHANGED <<brokerVars, obsVars, orchVars, wfVars, loopVars, memVars, queryVars>>

\* (a timed-out call that takes the head of the mailbox with it)
queue_after_timeout_drop(q) == IF q = <<>> THEN q ELSE Tail(q)

\* the cancelled queue.get() takes nothing: asyncio.Queue keeps an item in
\* the queue until a getter that was not cancelled picks it up
queue_after_timeout(q) == q

\* receive_message, lines 127-128: TimeoutError is caught, None is returned
MB_receive_timeout(a) ==
  /\ receivers[a] = "expired"
  /\ message_queues' =
       IF a \in DOMAIN message_queues
       THEN [message_queues EXCEPT ![a] = queue_after_timeout(@)]
       ELSE message_queues
  /\ ret' = Ret("receive_message", FALSE, None, 0)
  /\ receivers' = [receivers EXCEPT ![a] = "none"]
  /\ UNCHANGED <<subscribers, message_history, next_msg_id, sent_log, recv_log,
                 notify_log, orchVars, wfVars, loopVars, memVars, queryVars>>

\* --------------------------------------------------------- AgentOrchestrator
\* str.lower() on the capability tags in use
Lower(w) == IF w = "Review" THEN "review" ELSE w

\* `fragment in type(agent).__name__.lower()` for the agent classes
ClassContains(cls, frag) ==
  \/ cls = "ResearcherAgent" /\ frag = "research"
  \/ cls = "CoderAgent" /\ frag = "coder"
  \/ cls = "TesterAgent" /\ frag = "tester"
  \/ cls = "WriterAgent" /\ frag = "writer"
  \/ cls = "ReviewerAgent" /\ frag = "review"

\* the keyword / class-name pairs of lines 136-145
Affinity == {<<"research", "research">>, <<"code", "coder">>,
             <<"test", "tester">>, <<"write", "writer">>,
             <<"review", "review">>}

\* select_agent_for_task, lines 128-147: the score of one agent
score(a, desc) ==
  LET caps == agent_capabilities[a]
  IN 10 * Cardinality({i \in 1..Len(caps) : Lower(caps[i]) \in desc})
     + 5 * Cardinality({p \in Affinity :
                          p[1] \in desc /\ ClassContains(agent_type[a], p[2])})

\* (max() keeping the last best agent in dict order)
select_agent_for_task_last_best(desc) ==
  IF agents = <<>> THEN None
  ELSE LET best == CHOOSE i \in 1..Len(agents) :
                     /\ \A j \in 1..Len(agents) :
                          score(agents[j], desc) <= score(agents[i], desc)
                     /\ \A j \in (i + 1)..Len(agents) :
                          score(agents[j], desc) < score(agents[i], desc)
       IN IF score(agents[best], desc) > 0 THEN agents[best] ELSE agents[1]

\* select_agent_for_task, lines 150-156: max() keeps the first best agent in
\* dict order; with no positive score the first registered agent is returned
select_agent_for_task(desc) ==
  IF agents = <<>> THEN None
  ELSE LET best == CHOOSE i \in 1..Len(agents) :
                     /\ \A j \in 1..Len(agents) :
                          score(agents[j], desc) <= score(agents[i], desc)
                     /\ \A j \in 1..(i - 1) :
                          score(agents[j], desc) < score(agents[i], desc)
       IN IF score(agents[best], desc) > 0 THEN agents[best] ELSE agents[1]

\* Task(...) as create_task builds it, lines 192-198
Task(description, priority, dependencies) ==
  [description |-> description, assigned_to |-> None, status |-> PENDING,
   priority |-> priority, dependencies |-> dependencies, result |-> None,
   error |-> None, started_at |-> None, completed_at |-> None]

\* assign_task, lines 220-221
resolve_agent(t, agent_name) ==
  IF agent_name = None THEN select_agent_for_task(tasks[t].description)
  ELSE agent_name

\* assign_task, lines 214-224: the tests that make it return False
assign_ok(t, agent_name) ==
  /\ t \in DOMAIN tasks
  /\ resolve_agent(t, agent_name) # None
  /\ resolve_agent(t, agent_name) \in Range(agents)

\* (the Task is written before the agent is looked up)
tasks_after_assign_unchecked(t, agent_name) ==
  IF t \in DOMAIN tasks /\ resolve_agent(t, agent_name) # None
  THEN [tasks EXCEPT ![t].assigned_to = resolve_agent(t, agent_name),
                     ![t].status = ASSIGNED]
  ELSE tasks

\* assign_task, lines 226-227
tasks_after_assign(t, agent_name) ==
  IF assign_ok(t, agent_name)
  THEN [tasks EXCEPT ![t].assigned_to = resolve_agent(t, agent_name),
                     ![t].status = ASSIGNED]
  ELSE tasks

\* (the request also carries a text under the key the default handler reads)
task_request_with_task(t, agent_name) ==
  AgentMessage(next_msg_id, Orchestrator, resolve_agent(t, agent_name),
               TASK_REQUEST,
               [task_id |-> t, description |-> tasks[t].description,
                priority |-> tasks[t].priority, task |-> "job"],
               None, 1)

\* assign_task, lines 230-239
task_request(t, agent_name) ==
  AgentMessage(next_msg_id, Orchestrator, resolve_agent(t, agent_name),
               TASK_REQUEST,
               [task_id |-> t, description |-> tasks[t].description,
                priority |-> tasks[t].priority],
               None, 1)

\* assign_task, line 241, or nothing when assign_task returned early
send_task_request(t, agent_name) ==
  IF assign_ok(t, agent_name)
  THEN BrokerSend(task_request(t, agent_name))
  ELSE UNCHANGED <<brokerVars, sent_log, notify_log>>

\* (only a FAILED dependency holds the task back)
unmet_dependency_failed_only(t) ==
  \E d \in tasks[t].dependencies :
    d \in DOMAIN tasks /\ tasks[d].status = FAILED

\* execute_task, lines 260-265: some dependency that is in the task store is
\* not COMPLETED
unmet_dependency(t) ==
  \E d \in tasks[t].dependencies :
    d \in DOMAIN tasks /\ tasks[d].status # COMPLETED

\* (only a task without an assignee counts as having no agent)
agent_unavailable_unassigned_only(a) == a = None

\* execute_task, line 271
agent_unavailable(a) == a = None \/ a \notin Range(agents)

\* the (success, result) tuple execute_task returns
ExecVal(success, result) == Ret("execute_task", success, result, 0)

AO_register_agent(a, cls, capabilities) ==
  /\ agents' = IF a \in Range(agents) THEN agents ELSE Append(agents, a)
  /\ agent_type' = Put(agent_type, a, cls)
  /\ agent_capabilities' = Put(agent_capabilities, a, capabilities)
  /\ register_with_broker(a)
  /\ UNCHANGED <<message_history, next_msg_id, obsVars, tasks, calls, wfVars,
                 loopVars, recvVars, memVars, selection, workload, conversation>>

AO_unregister_agent(a) ==
  /\ IF a \in Range(agents)
     THEN /\ agents' = RemoveAt(agents, Index(agents, a))
          /\ agent_type' = Drop(agent_type, a)
          /\ agent_capabilities' = Drop(agent_capabilities, a)
          /\ IF a \in DOMAIN message_queues
             THEN /\ message_queues' = Drop(message_queues, a)
                  /\ subscribers' = Drop(subscribers, a)
                  /\ sent_log' = [sent_log EXCEPT ![a] = <<>>]
                  /\ recv_log' = [recv_log EXCEPT ![a] = <<>>]
             ELSE UNCHANGED <<message_queues, subscribers, sent_log, recv_log>>
     ELSE UNCHANGED <<agents, agent_type, agent_capabilities, message_queues,
                      subscribers, sent_log, recv_log>>
  /\ UNCHANGED <<message_history, next_msg_id, notify_log, ret, tasks, calls,
                 wfVars, loopVars, recvVars, memVars, selection, workload, conversation>>

AO_create_task(description, dependencies) ==
  /\ Len(tasks) + 1 \in TaskIds
  /\ tasks' = Append(tasks, Task(description, 1, dependencies))
  /\ ret' = Ret("create_task", TRUE, None, Len(tasks) + 1)
  /\ UNCHANGED <<brokerVars, sent_log, recv_log, notify_log,
                 agents, agent_capabilities, calls, wfVars, loopVars, recvVars, memVars, queryVars>>

\* assign_task, lines 214-243
assign_task(t, agent_name) ==
  /\ tasks' = tasks_after_assign(t, agent_name)
  /\ send_task_request(t, agent_name)
  /\ ret' = Ret("assign_task", assign_ok(t, agent_name), None, 0)
  /\ UNCHANGED <<recv_log, agents, agent_capabilities, calls, wfVars, loopVars, recvVars, memVars, queryVars>>

AO_assign_task(t, agent_name) ==
  /\ assign_ok(t, agent_name) => next_msg_id <= MaxOrchMsgs
  /\ assign_task(t, agent_name)

\* callers assign a task once more while a contract call is working on it
AO_assign_task_again(t, agent_name) ==
  /\ t \in DOMAIN tasks
  /\ tasks[t].status = IN_PROGRESS
  /\ next_msg_id <= MaxMsgs
  /\ assign_task(t, agent_name)

\* execute_task from its entry to its first suspension (the await of
\* agent.execute_task at line 289) or to an early return; caller is 0 for a
\* direct call (-1 for one made while another call is suspended) and the
\* position in the workflow for a call of execute_workflow
execute_task_begin(t, caller) ==
  IF t \notin DOMAIN tasks
  THEN /\ ret' = ExecVal(FALSE, None)
       /\ UNCHANGED <<brokerVars, sent_log, recv_log, notify_log, orchVars>>
  ELSE IF unmet_dependency(t)
  THEN /\ tasks' = [tasks EXCEPT ![t].status = PENDING]
       /\ ret' = ExecVal(FALSE, None)
       /\ UNCHANGED <<brokerVars, sent_log, recv_log, notify_log,
                      agents, agent_capabilities, calls>>
  ELSE LET assign == tasks[t].assigned_to = None
           assigned == IF assign THEN tasks_after_assign(t, None) ELSE tasks
           a == assigned[t].assigned_to
       IN /\ IF assign THEN send_task_request(t, None)
             ELSE UNCHANGED <<brokerVars, sent_log, notify_log>>
          /\ IF agent_unavailable(a)
             THEN /\ tasks' = [assigned EXCEPT
                                ![t].status = FAILED,
                                ![t].error = "No suitable agent available"]
                  /\ ret' = ExecVal(FALSE, None)
                  /\ UNCHANGED calls
             ELSE /\ caller = 0 => Len(calls) < MaxCalls    \* model bound
                  /\ tasks' = [assigned EXCEPT ![t].status = IN_PROGRESS,
                                               ![t].started_at = NowStamp]
                  /\ calls' = Append(calls, [task |-> t, agent |-> a,
                                             caller |-> caller])
                  /\ ret' = Ret("execute_task suspended", FALSE, None, 0)
          /\ UNCHANGED <<recv_log, agents, agent_capabilities>>

\* execute_task called directly
AO_execute_task(t) ==
  /\ (t \in DOMAIN tasks /\ tasks[t].assigned_to = None /\ assign_ok(t, None))
       => next_msg_id <= MaxOrchMsgs
  /\ execute_task_begin(t, 0)
  /\ UNCHANGED <<wfVars, loopVars, recvVars, memVars, queryVars>>

\* callers execute a task once more while a call is suspended in its contract
AO_execute_task_again(t) ==
  /\ t \in DOMAIN tasks
  /\ tasks[t].status = IN_PROGRESS
  /\ Len(calls) <= MaxCalls
  /\ execute_task_begin(t, -1)
  /\ UNCHANGED <<wfVars, loopVars, recvVars, memVars, queryVars>>

\* (the failure branch forgets the completion timestamp)
task_after_contract_no_stamp(task, outcome) ==
  IF outcome.ok
  THEN [task EXCEPT !.status = COMPLETED, !.completed_at = NowStamp,
                    !.result = outcome.val]
  ELSE [task EXCEPT !.status = FAILED, !.error = outcome.val]

\* (a raise of the contract is not recorded on the Task)
task_after_contract_failure_unrecorded(task, outcome) ==
  IF outcome.ok
  THEN [task EXCEPT !.status = COMPLETED, !.completed_at = NowStamp,
                    !.result = outcome.val]
  ELSE task

\* execute_task, lines 291-293 and 303-305: the Task after the contract call
task_after_contract(task, outcome) ==
  IF outcome.ok
  THEN [task EXCEPT !.status = COMPLETED, !.completed_at = NowStamp,
                    !.result = outcome.val]
  ELSE [task EXCEPT !.status = FAILED, !.completed_at = NowStamp,
                    !.error = outcome.val]

\* (the except branch returns success too)
execute_result_always_success(outcome) == ExecVal(TRUE, outcome.val)

\* execute_task, lines 300 and 312: what the call returns
execute_result(outcome) ==
  IF outcome.ok THEN ExecVal(TRUE, outcome.val) ELSE ExecVal(FALSE, None)

\* what agent.execute_task can do: return a text or raise an Exception
Outcomes ==
  {[ok |-> TRUE, val |-> r] : r \in Results} \cup
  {[ok |-> FALSE, val |-> e] : e \in Errors}

\* execute_task from the return of the contract call to its own return
execute_task_resume(i, outcome) ==
  /\ LET t == calls[i].task
     IN /\ tasks' = [tasks EXCEPT ![t] = task_after_contract(@, outcome)]
        /\ ret' = execute_result(outcome)
  /\ calls' = RemoveAt(calls, i)
  /\ UNCHANGED <<brokerVars, sent_log, recv_log, notify_log,
                 agents, agent_capabilities>>

\* the contract call of a direct execute_task returns or raises
AO_execute_task_resume(i, outcome) ==
  /\ i \in 1..Len(calls)
  /\ calls[i].caller <= 0
  /\ execute_task_resume(i, outcome)
  /\ UNCHANGED <<wfVars, loopVars, recvVars, memVars, queryVars>>

\* ----------------------------------------------------------- execute_workflow
\* execute_workflow has not been called.  ids is task_ids, next the position
\* of the next execute_task call, awaiting whether the sequential loop is
\* suspended in one, results the per-position return values; had_agent and
\* raised record whether an agent was registered at the call and whether a
\* contract call of the workflow raised.
NoWorkflow ==
  [pc |-> "idle", parallel |-> FALSE, ids |-> <<>>, next |-> 1,
   awaiting |-> FALSE, results |-> <<>>, had_agent |-> FALSE,
   raised |-> FALSE,
   summary |-> [total |-> 0, successful |-> 0, failed |-> 0]]

\* execute_workflow, lines 338-344: the tasks are created and recorded
Workflow_start(workflow_id, task_descriptions, parallel) ==
  /\ wf.pc = "idle"
  /\ \A k \in 1..Len(task_descriptions) : Len(tasks) + k \in TaskIds
  /\ LET ids == [k \in 1..Len(task_descriptions) |-> Len(tasks) + k]
     IN /\ tasks' = tasks \o [k \in 1..Len(task_descriptions) |->
                                Task(task_descriptions[k], 1, {})]
        /\ active_workflows' = Put(active_workflows, workflow_id, ids)
        /\ wf' = [NoWorkflow EXCEPT !.pc = "running", !.parallel = parallel,
                                    !.ids = ids, !.had_agent = agents # <<>>]
  /\ ret' = Ret("execute_workflow suspended", FALSE, None, 0)
  /\ UNCHANGED <<brokerVars, sent_log, recv_log, notify_log,
                 agents, agent_capabilities, calls, loopVars, recvVars, memVars, queryVars>>

\* (the sequential loop starts the next call without awaiting this one)
wf_after_call_no_await(w, returned, r) ==
  IF returned
  THEN [w EXCEPT !.next = @ + 1, !.results = Put(@, w.next, r)]
  ELSE [w EXCEPT !.next = @ + 1]

\* the workflow after it called execute_task for position w.next: the call
\* returned r at once, or it is suspended; asyncio.gather (line 352) goes on
\* to start the next call, the loop of lines 362-363 awaits this one
wf_after_call(w, returned, r) ==
  IF returned
  THEN [w EXCEPT !.next = @ + 1, !.results = Put(@, w.next, r)]
  ELSE IF w.parallel THEN [w EXCEPT !.next = @ + 1]
  ELSE [w EXCEPT !.awaiting = TRUE]

\* execute_workflow calls execute_task for the next task id (line 351 or 363)
Workflow_call ==
  /\ wf.pc = "running"
  /\ wf.next <= Len(wf.ids)
  /\ ~wf.awaiting
  /\ execute_task_begin(wf.ids[wf.next], wf.next)
  /\ wf' = wf_after_call(wf, ret'.op = "execute_task", ret')
  /\ UNCHANGED <<active_workflows, loopVars, recvVars, memVars, queryVars>>

\* the contract call of one of the workflow's execute_task calls returns or
\* raises; the sequential loop moves to the next task id
Workflow_resume(i, outcome) ==
  /\ i \in 1..Len(calls)
  /\ calls[i].caller > 0
  /\ execute_task_resume(i, outcome)
  /\ wf' = [wf EXCEPT !.results = Put(@, calls[i].caller, ret'),
                      !.raised = @ \/ ~outcome.ok,
                      !.awaiting = FALSE,
                      !.next = IF wf.parallel THEN @ ELSE @ + 1]
  /\ UNCHANGED <<active_workflows, loopVars, recvVars, memVars, queryVars>>

\* execute_workflow, lines 371-387: every call has returned, the summary
Workflow_return ==
  /\ wf.pc = "running"
  /\ wf.next > Len(wf.ids)
  /\ DOMAIN wf.results = 1..Len(wf.ids)
  /\ LET successful == Cardinality({k \in DOMAIN wf.results : wf.results[k].ok})
     IN wf' = [wf EXCEPT !.pc = "done",
                         !.summary = [total |-> Len(wf.ids),
                                      successful |-> successful,
                                      failed |-> Len(wf.results) - successful]]
  /\ ret' = Ret("execute_workflow", TRUE, None, 0)
  /\ UNCHANGED <<brokerVars, sent_log, recv_log, notify_log, orchVars,
                 active_workflows, loopVars, recvVars, memVars, queryVars>>

\* ------------------------------------------------------------------ SubAgent
\* the placeholder in a listener task that holds no message
NoMessage == AgentMessage(0, None, None, None, [task |-> ""], None, 0)

\* a _message_listener task: where its coroutine stands ("new": created, not
\* yet run; "receive": suspended in receive_message; "handler": in a custom
\* handler; "contract": in self.execute_task; "done") and whether a
\* Task.cancel() request is waiting to be thrown into it
ListenerTask(a) == [agent |-> a, pc |-> "new", msg |-> NoMessage, cancel |-> FALSE]

\* a listener task that can still take a message out of the mailbox
Live(i) == loops[i].pc # "done" /\ ~loops[i].cancel

\* the effect of MessageBroker.unregister_agent on the broker
unregister_from_broker(a) ==
  IF a \in DOMAIN message_queues
  THEN /\ message_queues' = Drop(message_queues, a)
       /\ subscribers' = Drop(subscribers, a)
       /\ sent_log' = [sent_log EXCEPT ![a] = <<>>]
       /\ recv_log' = [recv_log EXCEPT ![a] = <<>>]
  ELSE UNCHANGED <<message_queues, subscribers, sent_log, recv_log>>

\* SubAgent.__init__ with a message broker, lines 83-92
SubAgent_init(a) ==
  /\ a \notin constructed
  /\ constructed' = constructed \cup {a}
  /\ register_with_broker(a)
  /\ UNCHANGED <<message_history, next_msg_id, obsVars, orchVars, wfVars, recvVars, memVars, queryVars>>
  /\ UNCHANGED <<message_handlers, is_autonomous, listener, loops, cleanup_pc,
                 contract_log, handled_log>>

\* SubAgent.send_message, lines 281-289: priority takes its default, 1
agent_message(sender, recipient, message_type, content, thread_id) ==
  AgentMessage(next_msg_id, sender, recipient, message_type, content, thread_id, 1)

\* delegate_task: a task-request with the text under the key "task"
SA_delegate_task(sender, recipient, task, thread_id) ==
  /\ sender \in constructed
  /\ next_msg_id <= MaxMsgs
  /\ BrokerSend(agent_message(sender, recipient, TASK_REQUEST,
                              [task |-> task], thread_id))
  /\ UNCHANGED <<recv_log, ret, orchVars, wfVars, loopVars, recvVars, memVars, queryVars>>

\* register_message_handler, line 346
SA_register_message_handler(a, message_type) ==
  /\ a \in constructed
  /\ message_type \notin message_handlers[a]
  /\ message_handlers' = [message_handlers EXCEPT ![a] = @ \cup {message_type}]
  /\ UNCHANGED <<brokerVars, obsVars, orchVars, wfVars, constructed,
                 is_autonomous, listener, loops, cleanup_pc, contract_log,
                 handled_log, recvVars, memVars, queryVars>>

\* start_autonomous_mode, lines 397-401
SA_start_autonomous_mode(a) ==
  /\ a \in constructed
  /\ IF listener[a] # 0
     THEN UNCHANGED <<is_autonomous, listener, loops>>
     ELSE /\ Len(loops) < MaxLoops
          /\ is_autonomous' = [is_autonomous EXCEPT ![a] = TRUE]
          /\ loops' = Append(loops, ListenerTask(a))
          /\ listener' = [listener EXCEPT ![a] = Len(loops) + 1]
  /\ UNCHANGED <<brokerVars, obsVars, orchVars, wfVars, constructed,
                 message_handlers, cleanup_pc, contract_log, handled_log, recvVars, memVars, queryVars>>

\* Task.cancel() on listener task i.  A finished task ignores it.  Otherwise
\* CancelledError is thrown into the coroutine at its current await.  While
\* the task is suspended in asyncio.wait_for(queue.get(), 1.0) and the queue
\* holds a message, wait_for of Python 3.10 and 3.11 returns the message and
\* drops the cancellation; Python 3.12 and later raise it.
cancel_outcomes(i) ==
  LET l == loops[i]
      requested == [loops EXCEPT ![i].cancel = TRUE]
  IN IF l.pc = "done" THEN {loops}
     ELSE IF l.pc = "receive" /\ Get(message_queues, l.agent, <<>>) # <<>>
          THEN {requested, loops}
          ELSE {requested}

\* stop_autonomous_mode, lines 406-409: the handle is dropped, not awaited
SA_stop_autonomous_mode(a) ==
  /\ a \in constructed
  /\ is_autonomous' = [is_autonomous EXCEPT ![a] = FALSE]
  /\ IF listener[a] # 0
     THEN /\ loops' \in cancel_outcomes(listener[a])
          /\ listener' = [listener EXCEPT ![a] = 0]
     ELSE UNCHANGED <<loops, listener>>
  /\ UNCHANGED <<brokerVars, obsVars, orchVars, wfVars, constructed,
                 message_handlers, cleanup_pc, contract_log, handled_log, recvVars, memVars, queryVars>>

\* cleanup, lines 240-243: cancel the listener and await it; with no listener
\* the call runs through to unregister_agent (line 254)
SA_cleanup(a) ==
  /\ a \in constructed
  /\ cleanup_pc[a].pc = "idle"
  /\ IF listener[a] # 0
     THEN /\ loops' \in cancel_outcomes(listener[a])
          /\ cleanup_pc' = [cleanup_pc EXCEPT ![a] = [pc |-> "await", task |-> listener[a]]]
          /\ UNCHANGED <<message_queues, subscribers, sent_log, recv_log>>
     ELSE /\ unregister_from_broker(a)
          /\ cleanup_pc' = [cleanup_pc EXCEPT ![a] = [pc |-> "done", task |-> 0]]
          /\ UNCHANGED loops
  /\ UNCHANGED <<message_history, next_msg_id, notify_log, ret, orchVars, wfVars,
                 constructed, message_handlers, is_autonomous, listener,
                 contract_log, handled_log, recvVars, memVars, queryVars>>

\* cleanup, lines 243-254: the awaited listener task has ended
SA_cleanup_resume(a) ==
  /\ cleanup_pc[a].pc = "await"
  /\ loops[cleanup_pc[a].task].pc = "done"
  /\ unregister_from_broker(a)
  /\ cleanup_pc' = [cleanup_pc EXCEPT ![a] = [pc |-> "done", task |-> 0]]
  /\ UNCHANGED <<message_history, next_msg_id, notify_log, ret, orchVars, wfVars,
                 constructed, message_handlers, is_autonomous, listener, loops,
                 contract_log, handled_log, recvVars, memVars, queryVars>>

\* _message_listener: the new task runs up to its first receive_message
Loop_run(i) ==
  /\ loops[i].pc = "new"
  /\ ~loops[i].cancel
  /\ loops' = [loops EXCEPT ![i].pc = "receive"]
  /\ UNCHANGED <<brokerVars, obsVars, orchVars, wfVars, constructed,
                 message_handlers, is_autonomous, listener, cleanup_pc,
                 contract_log, handled_log, recvVars, memVars, queryVars>>

\* _handle_message, lines 367-376: where a received message is dispatched to
dispatch(a, m) ==
  IF m.message_type \in message_handlers[a] THEN "handler"
  ELSE IF m.message_type = TASK_REQUEST /\ Get(m.content, "task", "") # ""
       THEN "contract"
       ELSE "receive"

\* a handled message: which task handled it and whether its handling raised
Handled(m, i, failed) == [id |-> m.id, loop |-> i, failed |-> failed]

\* _message_listener, lines 352-354, and _handle_message up to its first
\* await: receive_message returns the head of the mailbox and it is dispatched
Loop_receive(i) ==
  LET a == loops[i].agent
  IN /\ loops[i].pc = "receive"
     /\ ~loops[i].cancel
     /\ Get(message_queues, a, <<>>) # <<>>
     /\ LET m == Queue_get(message_queues[a])
            to == dispatch(a, m)
        IN /\ message_queues' = [message_queues EXCEPT ![a] = Tail(@)]
           /\ recv_log' = [recv_log EXCEPT ![a] = Append(@, m)]
           /\ loops' = [loops EXCEPT ![i].pc = to,
                                     ![i].msg = IF to = "receive" THEN NoMessage ELSE m]
           /\ contract_log' = IF to = "contract"
                              THEN Append(contract_log, [msg |-> m, text |-> m.content.task])
                              ELSE contract_log
           /\ handled_log' = IF to = "receive"
                             THEN Append(handled_log, Handled(m, i, FALSE))
                             ELSE handled_log
     /\ UNCHANGED <<subscribers, message_history, next_msg_id, sent_log,
                    notify_log, ret, orchVars, wfVars, constructed,
                    message_handlers, is_autonomous, listener, cleanup_pc, recvVars, memVars, queryVars>>

\* (the listener without its `except Exception` clause: the raise ends the task)
pc_after_handler_uncaught(raised) == IF raised THEN "done" ELSE "receive"

\* _message_listener, lines 354-358: a raise of _handle_message is caught and
\* printed, the while loop goes on to the next receive_message
pc_after_handler(raised) == "receive"

\* the custom handler (line 368) returns or raises an Exception
Loop_handler_return(i, raised) ==
  /\ loops[i].pc = "handler"
  /\ ~loops[i].cancel
  /\ loops' = [loops EXCEPT ![i].pc = pc_after_handler(raised), ![i].msg = NoMessage]
  /\ handled_log' = Append(handled_log, Handled(loops[i].msg, i, raised))
  /\ UNCHANGED <<brokerVars, obsVars, orchVars, wfVars, constructed,
                 message_handlers, is_autonomous, listener, cleanup_pc,
                 contract_log, recvVars, memVars, queryVars>>

\* _handle_message, lines 377-389: the reply to the sender of m
reply(a, m, outcome) ==
  IF outcome.ok
  THEN <<agent_message(a, m.sender, TASK_RESPONSE,
                       [result |-> outcome.val, task_id |-> m.id], m.thread_id)>>
  ELSE <<agent_message(a, m.sender, ERROR_REPORT,
                       [error |-> outcome.val, task_id |-> m.id], m.thread_id)>>

\* self.execute_task (line 376) returns or raises an Exception; the reply is
\* sent and the listener goes on to the next receive_message
Loop_contract_return(i, outcome) ==
  LET m == loops[i].msg
      r == reply(loops[i].agent, m, outcome)
  IN /\ loops[i].pc = "contract"
     /\ ~loops[i].cancel
     /\ IF r # <<>> THEN BrokerSend(r[1])
        ELSE UNCHANGED <<brokerVars, sent_log, notify_log>>
     /\ loops' = [loops EXCEPT ![i].pc = "receive", ![i].msg = NoMessage]
     /\ handled_log' = Append(handled_log, Handled(m, i, ~outcome.ok))
     /\ UNCHANGED <<recv_log, ret, orchVars, wfVars, constructed,
                    message_handlers, is_autonomous, listener, cleanup_pc,
                    contract_log, recvVars, memVars, queryVars>>

\* CancelledError is thrown into the listener task at the await it is
\* suspended in.  Neither `except Exception` (line 383) nor the contract
\* catches it; line 355 catches it and breaks out of the loop.
Loop_cancelled(i) ==
  /\ loops[i].pc # "done"
  /\ loops[i].cancel
  /\ loops' = [loops EXCEPT ![i] = [@ EXCEPT !.pc = "done", !.msg = NoMessage,
                                             !.cancel = FALSE]]
  /\ UNCHANGED <<brokerVars, obsVars, orchVars, wfVars, constructed,
                 message_handlers, is_autonomous, listener, cleanup_pc,
                 contract_log, handled_log, recvVars, memVars, queryVars>>

\* _message_listener, lines 350-354, once the agent's mailbox is gone:
\* receive_message returns None at communication.py 119-120 before any await
\* (a wait_for that was pending on the removed queue has timed out), the
\* message is falsy and `while True` starts over.  The coroutine runs without
\* a suspension point from here on ("spin").
Loop_spin(i) ==
  /\ loops[i].pc = "receive"
  /\ ~loops[i].cancel
  /\ loops[i].agent \notin DOMAIN message_queues
  /\ loops' = [loops EXCEPT ![i].pc = "spin"]
  /\ UNCHANGED <<brokerVars, obsVars, orchVars, wfVars, constructed,
                 message_handlers, is_autonomous, listener, cleanup_pc,
                 contract_log, handled_log, recvVars, memVars, queryVars>>

\* a coroutine that never suspends keeps the event loop: no other logical
\* task, callback or timer of the loop's thread runs
Spinning == \E i \in 1..Len(loops) : loops[i].pc = "spin"

\* one step of some listener task
LoopStep ==
  \E i \in 1..Len(loops) :
    \/ Loop_run(i)
    \/ Loop_receive(i)
    \/ \E raised \in BOOLEAN : Loop_handler_return(i, raised)
    \/ \E o \in Outcomes : Loop_contract_return(i, o)
    \/ Loop_cancelled(i)

\* --------------------------------------------------------------- AgentMemory
\* Every operation below runs inside `async with self.lock` (except
\* get_context_summary, which is synchronous) and no locked region contains
\* an await that suspends: the lock is free whenever another task can run,
\* and each operation is one step.
\* MemoryEntry: id is the uuid of the n-th add_memory call, timestamp the
\* value of datetime.now() in it
MemoryEntry(id, content, timestamp, importance, tags, metadata) ==
  [id |-> id, content |-> content, timestamp |-> timestamp,
   importance |-> importance, tags |-> tags, metadata |-> metadata]

\* what an AgentMemory operation returned: a truth value and a list
MemRet(op, ok, val) == [op |-> op, ok |-> ok, val |-> val]

\* Python values callers put into working memory and metadata
PyStr(x) == [py |-> "str", items |-> <<x>>]
PyTuple(x) == [py |-> "tuple", items |-> x]
PyList(x) == [py |-> "list", items |-> x]
PySet(x) == [py |-> "set", items |-> x]

\* json.dump followed by json.load on one value: a tuple comes back as a
\* list, a str and a list as themselves; a set is not serializable
json_serializable(v) == v.py # "set"
json_value(v) == IF v.py = "tuple" THEN PyList(v.items) ELSE v
json_dict(d) == [k \in DOMAIN d |-> json_value(d[k])]
dict_serializable(d) == \A k \in DOMAIN d : json_serializable(d[k])

\* datetime.isoformat() and datetime.fromisoformat(): the text of a timestamp
isoformat(t) == <<"iso", t>>
is_isoformat(x) == x[1] = "iso"
fromisoformat(x) == x[2]

\* the file at the save path: absent, or a text that is a JSON document with
\* the three sections, or a text json.load rejects.  saved and saved_from
\* remember whether a save_to_file call wrote it, and from which state.
Snapshot(st, lt, wm) == [short_term |-> st, long_term |-> lt, working_memory |-> wm]
Document(valid, st, lt, wm, saved, from) ==
  [exists |-> TRUE, valid |-> valid, short_term |-> st, long_term |-> lt,
   working_memory |-> wm, saved |-> saved, saved_from |-> from]
NoFile ==
  [exists |-> FALSE, valid |-> FALSE, short_term |-> <<>>, long_term |-> <<>>,
   working_memory |-> <<>>, saved |-> FALSE, saved_from |-> Snapshot(<<>>, <<>>, <<>>)]

\* list.sort(key=lambda m: (m.importance, m.timestamp), reverse=True): the
\* sort is stable, entries with equal keys keep their order
KeyGreater(x, y) ==
  \/ x.importance > y.importance
  \/ x.importance = y.importance /\ x.timestamp > y.timestamp

RECURSIVE SortByRelevance(_)
SortByRelevance(s) ==
  IF s = <<>> THEN <<>>
  ELSE LET x == s[Len(s)]
           rest == SortByRelevance(SubSeq(s, 1, Len(s) - 1))
           k == Cardinality({i \in 1..Len(rest) : ~KeyGreater(x, rest[i])})
       IN SubSeq(rest, 1, k) \o <<x>> \o SubSeq(rest, k + 1, Len(rest))

\* s[-n:] and s[:n]
LastN(s, n) == IF Len(s) <= n THEN s ELSE SubSeq(s, Len(s) - n + 1, Len(s))
FirstN(s, n) == IF Len(s) <= n THEN s ELSE SubSeq(s, 1, n)

\* (every short-term entry is copied, whatever its importance)
long_term_extended_all(st, lt) == lt \o st

\* _consolidate_memories, lines 104-105: long_term with the important
\* short-term entries appended
long_term_extended(st, lt) ==
  LET Important(m) == m.importance >= important
  IN lt \o SelectSeq(st, Important)

\* (the truncation without the sort: the entries added last are cut)
long_term_trimmed_unsorted(lt) ==
  IF Len(lt) > max_size THEN FirstN(lt, max_size) ELSE lt

\* _consolidate_memories, lines 111-114
long_term_trimmed(lt) ==
  IF Len(lt) > max_size THEN FirstN(SortByRelevance(lt), max_size) ELSE lt

\* (consolidation that starts one entry early)
needs_consolidation_early(st) == Len(st) >= short_term_limit

\* add_memory, line 96
needs_consolidation(st) == Len(st) > short_term_limit

\* add_memory, lines 80-99, with _consolidate_memories (101-114); the awaited
\* coroutine never suspends, so the whole call is one step
Mem_add_memory(content, importance, tags, metadata) ==
  /\ mem_adds < MaxAdds
  /\ LET entry == MemoryEntry(mem_adds + 1, content, mem_adds + 1, importance,
                              tags, metadata)
         st == Append(short_term, entry)
     IN IF needs_consolidation(st)
        THEN /\ long_term' = long_term_trimmed(long_term_extended(st, long_term))
             /\ short_term' = LastN(st, short_term_keep)
             /\ consolidations' = consolidations + 1
        ELSE /\ short_term' = st
             /\ UNCHANGED <<long_term, consolidations>>
  /\ mem_adds' = mem_adds + 1
  /\ mem_ret' = MemRet("add_memory", TRUE, <<mem_adds + 1>>)
  /\ UNCHANGED <<working_memory, mem_file>>
  /\ UNCHANGED <<brokerVars, obsVars, orchVars, wfVars, loopVars, recvVars, queryVars>>

\* str.lower() on a text, a text being the sequence of its characters
lower_char(c) == IF c = "A" THEN "a" ELSE IF c = "B" THEN "b" ELSE c
lower(text) == [k \in 1..Len(text) |-> lower_char(text[k])]

\* `needle in hay` on two texts
contains(needle, hay) ==
  \E k \in 0..(Len(hay) - Len(needle)) :
    SubSeq(hay, k + 1, k + Len(needle)) = needle

\* (an entry has to carry every requested tag)
tags_match_all(m, tags) ==
  \A j \in 1..Len(tags) : \E k \in 1..Len(m.tags) : m.tags[k] = tags[j]

\* search_memories, line 144: any(tag in m.tags for tag in tags)
tags_match(m, tags) ==
  \E j \in 1..Len(tags) : \E k \in 1..Len(m.tags) : m.tags[k] = tags[j]

\* search_memories, lines 135-158; query and tags that are None or empty are
\* both falsy and are written <<>>
search_memories(query, tags, min_importance, limit) ==
  LET all_memories == short_term \o long_term
      ByImportance(m) == m.importance >= min_importance
      ByTags(m) == tags_match(m, tags)
      ByQuery(m) == contains(lower(query), lower(m.content))
      by_importance == SelectSeq(all_memories, ByImportance)
      by_tags == IF tags # <<>> THEN SelectSeq(by_importance, ByTags)
                 ELSE by_importance
      by_query == IF query # <<>> THEN SelectSeq(by_tags, ByQuery) ELSE by_tags
  IN FirstN(SortByRelevance(by_query), limit)

\* what search_memories returned, and for which arguments
SearchRet(query, tags, min_importance, limit, val) ==
  [op |-> "search_memories", ok |-> TRUE, val |-> val,
   args |-> [query |-> query, tags |-> tags,
             min_importance |-> min_importance, limit |-> limit]]

Mem_search_memories(query, tags, min_importance, limit) ==
  /\ mem_ret' = SearchRet(query, tags, min_importance, limit,
                          search_memories(query, tags, min_importance, limit))
  /\ UNCHANGED <<short_term, long_term, working_memory, mem_adds,
                 consolidations, mem_file>>
  /\ UNCHANGED <<brokerVars, obsVars, orchVars, wfVars, loopVars, recvVars, queryVars>>

\* list.sort(key=lambda m: m.timestamp, reverse=True), a stable sort
RECURSIVE SortByTimestamp(_)
SortByTimestamp(s) ==
  IF s = <<>> THEN <<>>
  ELSE LET x == s[Len(s)]
           rest == SortByTimestamp(SubSeq(s, 1, Len(s) - 1))
           k == Cardinality({i \in 1..Len(rest) : rest[i].timestamp >= x.timestamp})
       IN SubSeq(rest, 1, k) \o <<x>> \o SubSeq(rest, k + 1, Len(rest))

\* get_recent_memories, lines 170-172
get_recent_memories(limit) == FirstN(SortByTimestamp(short_term \o long_term), limit)

Mem_get_recent_memories(limit) ==
  /\ mem_ret' = [op |-> "get_recent_memories", ok |-> TRUE,
                 val |-> get_recent_memories(limit), args |-> [limit |-> limit]]
  /\ UNCHANGED <<short_term, long_term, working_memory, mem_adds,
                 consolidations, mem_file>>
  /\ UNCHANGED <<brokerVars, obsVars, orchVars, wfVars, loopVars, recvVars, queryVars>>

\* MemoryEntry.to_dict, lines 23-30, as json.dump writes it
to_dict(m) ==
  [id |-> m.id, content |-> m.content, timestamp |-> isoformat(m.timestamp),
   importance |-> m.importance, tags |-> m.tags, metadata |-> json_dict(m.metadata)]

\* MemoryEntry.from_dict, lines 35-42: KeyError on a missing id, content or
\* timestamp, ValueError on a timestamp that is not ISO text
from_dict_raises(d) ==
  \/ ~({"id", "content", "timestamp"} \subseteq DOMAIN d)
  \/ ~is_isoformat(d.timestamp)

from_dict(d) ==
  MemoryEntry(d.id, d.content, fromisoformat(d.timestamp),
              Get(d, "importance", 1), Get(d, "tags", <<>>), Get(d, "metadata", <<>>))

section_raises(ds) == \E k \in 1..Len(ds) : from_dict_raises(ds[k])
section_entries(ds) == [k \in 1..Len(ds) |-> from_dict(ds[k])]

\* update_working_memory, line 182
Mem_update_working_memory(key, value) ==
  /\ working_memory' = Put(working_memory, key, value)
  /\ mem_ret' = MemRet("update_working_memory", TRUE, <<>>)
  /\ UNCHANGED <<short_term, long_term, mem_adds, consolidations, mem_file>>
  /\ UNCHANGED <<brokerVars, obsVars, orchVars, wfVars, loopVars, recvVars, queryVars>>

\* clear_working_memory, line 199
Mem_clear_working_memory ==
  /\ working_memory' = <<>>
  /\ mem_ret' = MemRet("clear_working_memory", TRUE, <<>>)
  /\ UNCHANGED <<short_term, long_term, mem_adds, consolidations, mem_file>>
  /\ UNCHANGED <<brokerVars, obsVars, orchVars, wfVars, loopVars, recvVars, queryVars>>

\* save_to_file, lines 207-218: open(filepath, 'w') truncates the file, then
\* json.dump writes the document, or raises TypeError part-way on a value it
\* cannot serialize and leaves a text that is not JSON; the error propagates
Mem_save_to_file ==
  LET ok == /\ dict_serializable(working_memory)
            /\ \A m \in Range(short_term) \cup Range(long_term) :
                 dict_serializable(m.metadata)
  IN /\ mem_file' =
          IF ok
          THEN Document(TRUE, [k \in 1..Len(short_term) |-> to_dict(short_term[k])],
                        [k \in 1..Len(long_term) |-> to_dict(long_term[k])],
                        json_dict(working_memory), TRUE,
                        Snapshot(short_term, long_term, working_memory))
          ELSE Document(FALSE, <<>>, <<>>, <<>>, FALSE, Snapshot(<<>>, <<>>, <<>>))
     /\ mem_ret' = MemRet("save_to_file", ok, <<>>)
     /\ UNCHANGED <<short_term, long_term, working_memory, mem_adds, consolidations>>
     /\ UNCHANGED <<brokerVars, obsVars, orchVars, wfVars, loopVars, recvVars, queryVars>>

\* load_from_file, lines 237-239: self.short_term is assigned as soon as its
\* section is parsed, before the long_term section is looked at
short_term_after_load(doc) ==
  IF doc.exists /\ doc.valid /\ ~section_raises(doc.short_term)
  THEN section_entries(doc.short_term)
  ELSE short_term

\* load_from_file, lines 229-247: whether the call returns True
load_ok(doc) ==
  /\ doc.exists
  /\ doc.valid
  /\ ~section_raises(doc.short_term)
  /\ ~section_raises(doc.long_term)

\* load_from_file, lines 240-243
long_term_after_load(doc) ==
  IF load_ok(doc) THEN section_entries(doc.long_term) ELSE long_term

working_memory_after_load(doc) ==
  IF load_ok(doc) THEN doc.working_memory ELSE working_memory

Mem_load_from_file ==
  /\ short_term' = short_term_after_load(mem_file)
  /\ long_term' = long_term_after_load(mem_file)
  /\ working_memory' = working_memory_after_load(mem_file)
  /\ mem_ret' = MemRet("load_from_file", load_ok(mem_file), <<>>)
  /\ UNCHANGED <<mem_adds, consolidations, mem_file>>
  /\ UNCHANGED <<brokerVars, obsVars, orchVars, wfVars, loopVars, recvVars, queryVars>>

\* AgentMemory.__init__, lines 55-60: a fresh instance; the file stays
Mem_new ==
  /\ short_term' = <<>>
  /\ long_term' = <<>>
  /\ working_memory' = <<>>
  /\ mem_ret' = MemRet("init", TRUE, <<>>)
  /\ UNCHANGED <<mem_adds, consolidations, mem_file>>
  /\ UNCHANGED <<brokerVars, obsVars, orchVars, wfVars, loopVars, recvVars, queryVars>>

\* something else writes or removes the file at the save path
File_write(doc) ==
  /\ mem_file' = doc
  /\ UNCHANGED <<short_term, long_term, working_memory, mem_adds, consolidations,
                 mem_ret>>
  /\ UNCHANGED <<brokerVars, obsVars, orchVars, wfVars, loopVars, recvVars, queryVars>>

\* no select_agent_for_task call has returned yet
NoSelection == [description |-> {}, agent |-> "not called"]

\* select_agent_for_task called by itself, lines 114-156
AO_select_agent_for_task(desc) ==
  /\ selection' = [description |-> desc, agent |-> select_agent_for_task(desc)]
  /\ UNCHANGED <<brokerVars, obsVars, orchVars, wfVars, loopVars, recvVars,
                 memVars, agent_type, workload, conversation>>

\* get_agent_workload, lines 411-417: all zeros for every registered agent
no_workload ==
  [a \in Range(agents) |->
     [assigned |-> 0, in_progress |-> 0, completed |-> 0, failed |-> 0]]

\* (a task of an agent counts whatever its status, as completed)
tally_any_status(w, task) ==
  IF task.assigned_to # None /\ task.assigned_to \in DOMAIN w
  THEN [w EXCEPT ![task.assigned_to].completed = @ + 1]
  ELSE w

\* get_agent_workload, lines 420-428: one task added to the tally
tally(w, task) ==
  IF task.assigned_to # None /\ task.assigned_to \in DOMAIN w
  THEN IF task.status = ASSIGNED
       THEN [w EXCEPT ![task.assigned_to].assigned = @ + 1]
       ELSE IF task.status = IN_PROGRESS
       THEN [w EXCEPT ![task.assigned_to].in_progress = @ + 1]
       ELSE IF task.status = COMPLETED
       THEN [w EXCEPT ![task.assigned_to].completed = @ + 1]
       ELSE IF task.status = FAILED
       THEN [w EXCEPT ![task.assigned_to].failed = @ + 1]
       ELSE w
  ELSE w

\* get_agent_workload, lines 419-430: the scan of the task store up to task k
RECURSIVE tally_upto(_)
tally_upto(k) ==
  IF k = 0 THEN no_workload ELSE tally(tally_upto(k - 1), tasks[k])

get_agent_workload == tally_upto(Len(tasks))

\* no get_agent_workload call has returned yet
NoWorkload == [called |-> FALSE, val |-> <<>>]

\* get_agent_workload called: it only reads
AO_get_agent_workload ==
  /\ workload' = [called |-> TRUE, val |-> get_agent_workload]
  /\ UNCHANGED <<brokerVars, obsVars, orchVars, wfVars, loopVars, recvVars,
                 memVars, agent_type, selection, conversation>>

\* ------------------------------------------------------------------- Init
Init ==
  /\ message_queues = <<>>
  /\ subscribers = <<>>
  /\ message_history = <<>>
  /\ next_msg_id = 1
  /\ sent_log = [a \in Names |-> <<>>]
  /\ recv_log = [a \in Names |-> <<>>]
  /\ notify_log = <<>>
  /\ ret = Ret("init", TRUE, None, 0)
  /\ agents = <<>>
  /\ agent_capabilities = <<>>
  /\ tasks = <<>>
  /\ calls = <<>>
  /\ active_workflows = <<>>
  /\ wf = NoWorkflow
  /\ constructed = {}
  /\ message_handlers = [a \in Names |-> {}]
  /\ is_autonomous = [a \in Names |-> FALSE]
  /\ listener = [a \in Names |-> 0]
  /\ loops = <<>>
  /\ cleanup_pc = [a \in Names |-> [pc |-> "idle", task |-> 0]]
  /\ contract_log = <<>>
  /\ handled_log = <<>>
  /\ receivers = [a \in Names |-> "none"]
  /\ short_term = <<>>
  /\ long_term = <<>>
  /\ working_memory = <<>>
  /\ mem_adds = 0
  /\ consolidations = 0
  /\ mem_ret = MemRet("init", TRUE, <<>>)
  /\ mem_file = NoFile
  /\ agent_type = <<>>
  /\ selection = NoSelection
  /\ workload = NoWorkload
  /\ conversation = NoConversation

\* messages a caller of the broker can construct
BrokerMessages ==
  {AgentMessage(next_msg_id, s, r, INFORMATION_SHARE, [data |-> "test"], th, p) :
     s \in Names, r \in Names, th \in {None}, p \in Priorities}

NextBroker ==
  \/ \E a \in Names : MB_register_agent(a)
  \/ \E a \in Names : MB_unregister_agent(a)
  \/ \E m \in BrokerMessages : MB_send_message(m)
  \/ \E a \in Names : MB_receive_message(a)
  \/ \E a \in Names : MB_receive_none(a)
  \/ \E a \in Names, cb \in Callbacks : MB_subscribe(a, cb)

SpecBroker == Init /\ [][NextBroker]_vars

\* the broker's history is filled and asked for conversations; 50 is the
\* default limit
HistoryLimits == {0, 1, 2, 50}

NextHistory ==
  \/ \E a \in Names : MB_register_agent(a)
  \/ \E m \in BrokerMessages : MB_send_message(m)
  \/ \E a \in Names, b \in Names, lim \in HistoryLimits :
       MB_get_conversation_history(a, b, lim)

SpecHistory == Init /\ [][NextHistory]_vars

\* the broker with several subscribers to one of the names, raising and not
NotifyMessages ==
  {AgentMessage(next_msg_id, "a1", r, INFORMATION_SHARE, [data |-> "test"],
                None, 1) : r \in Names}

NextNotify ==
  \/ \E a \in Names : MB_register_agent(a)
  \/ \E a \in Names : MB_unregister_agent(a)
  \/ \E cb \in NotifyCallbacks : MB_subscribe_more("a2", cb)
  \/ \E m \in NotifyMessages : MB_send_message(m)

SpecNotify == Init /\ [][NextNotify]_vars

\* names are registered with the broker directly, by building an agent and
\* by the orchestrator, while messages are queued and callbacks subscribed
NextRegister ==
  \/ \E a \in Names : MB_register_agent(a)
  \/ SubAgent_init("a2")
  \/ AO_register_agent("a2", AgentClass["a2"], Capabilities["a2"])
  \/ \E cb \in NotifyCallbacks : MB_subscribe_more("a2", cb)
  \/ \E m \in NotifyMessages : MB_send_message(m)

SpecRegister == Init /\ [][NextRegister]_vars

\* actors receiving with a timeout while messages are sent to them
NextReceive ==
  \/ \E a \in Names : MB_register_agent(a)
  \/ \E m \in BrokerMessages : MB_send_message(m)
  \/ \E a \in Names : MB_receive_begin(a)
  \/ \E a \in Names : MB_receive_wake(a)
  \/ \E a \in Names : MB_receive_expire(a)
  \/ \E a \in Names : MB_receive_timeout(a)

SpecReceive == Init /\ [][NextReceive]_vars

\* add_memory calls on one AgentMemory
NextMemory ==
  \E c \in {"Alpha"}, i \in Importances, t \in {<<>>, <<"x">>} :
    Mem_add_memory(c, i, t, <<>>)

SpecMemory == Init /\ [][NextMemory]_vars

\* add_memory calls with two importances that reach long-term and one that
\* does not, until long-term has been truncated
TrimImportances == {1, 3, 5}

NextTrim ==
  \E i \in TrimImportances : Mem_add_memory(<<"A">>, i, <<>>, <<>>)

SpecTrim == Init /\ [][NextTrim]_vars

\* one AgentMemory that is filled until it has consolidated once and is
\* searched at any time: entries <<content, importance, tags>> and the search arguments
SearchEntries ==
  {<<(<<"A", "b">>), 1, (<<"x">>)>>,
   <<(<<"b", "c">>), 3, (<<>>)>>,
   <<(<<"A", "b", "c">>), 3, (<<"x", "y">>)>>}
Queries == {<<>>, <<"a">>, <<"A", "B">>, <<"c", "b">>}
SearchTags == {<<>>, <<"x">>, <<"y", "z">>}
MinImportances == {1, 2}
Limits == {0, 1, 2, 10}

NextSearch ==
  \/ \E e \in SearchEntries :
       mem_adds <= short_term_limit /\ Mem_add_memory(e[1], e[2], e[3], <<>>)
  \/ \E q \in Queries, t \in SearchTags, mi \in MinImportances, lim \in Limits :
       Mem_search_memories(q, t, mi, lim)

SpecSearch == Init /\ [][NextSearch]_vars

\* one AgentMemory that is filled through several consolidations and asked
\* for what it recalls
RecallLimits == {1, 10}

NextRecall ==
  \/ \E i \in Importances : Mem_add_memory(<<"A">>, i, <<>>, <<>>)
  \/ \E mi \in MinImportances, lim \in RecallLimits :
       Mem_search_memories(<<>>, <<>>, mi, lim)
  \/ \E lim \in RecallLimits : Mem_get_recent_memories(lim)

SpecRecall == Init /\ [][NextRecall]_vars

\* one AgentMemory that is filled, saved and loaded, and files that come
\* from elsewhere: entry dicts that parse, one without an id, one with a
\* timestamp that is not ISO text
GoodDict == to_dict(MemoryEntry(9, "beta", 9, 3, <<"x">>, <<>>))
NoIdDict == [content |-> "beta"]
BadStampDict == [GoodDict EXCEPT !.timestamp = <<"text", 9>>]
Documents ==
  {NoFile, Document(FALSE, <<>>, <<>>, <<>>, FALSE, Snapshot(<<>>, <<>>, <<>>))} \cup
  {Document(TRUE, st, lt, [k |-> PyStr("file")], FALSE, Snapshot(<<>>, <<>>, <<>>)) :
     st \in {<<GoodDict>>, <<NoIdDict>>}, lt \in {<<>>, <<GoodDict>>, <<BadStampDict>>}}
MemValues == {PyStr("v"), PyTuple(<<"a", "b">>), PySet(<<"a">>)}

NextPersist ==
  \/ \E md \in {<<>>, [k |-> PyTuple(<<"a">>)]} :
       mem_adds < MaxSaved /\ Mem_add_memory("Alpha", 3, <<"x">>, md)
  \/ \E v \in MemValues : Mem_update_working_memory("k", v)
  \/ Mem_clear_working_memory
  \/ Mem_save_to_file
  \/ Mem_load_from_file
  \/ Mem_new
  \/ \E doc \in Documents : File_write(doc)

SpecPersist == Init /\ [][NextPersist]_vars

\* agents of every type and capability list come and go, and the selection is
\* asked for between any two registrations
NextSelect ==
  \/ \E a \in Names, cls \in AgentTypes, caps \in CapabilityLists :
       AO_register_agent(a, cls, caps)
  \/ \E a \in Names : AO_unregister_agent(a)
  \/ \E d \in TaskDescriptions : AO_select_agent_for_task(d)

SpecSelect == Init /\ [][NextSelect]_vars

\* the orchestrator driven by its callers; contract calls return in any order
NextOrch ==
  \/ \E a \in Names : AO_register_agent(a, AgentClass[a], Capabilities[a])
  \/ \E a \in Names : AO_unregister_agent(a)
  \/ \E d \in Descriptions, deps \in SUBSET (DOMAIN tasks) :
       AO_create_task(d, deps)
  \/ \E t \in TaskIds \cup {UnknownTask}, a \in Names \cup {None} :
       AO_assign_task(t, a)
  \/ \E t \in TaskIds \cup {UnknownTask} : AO_execute_task(t)
  \/ \E i \in 1..Len(calls), o \in Outcomes : AO_execute_task_resume(i, o)

SpecOrch == Init /\ [][NextOrch]_vars

\* tasks are created with dependency lists that name stored tasks and an id
\* the store does not have, and executed while the agent comes and goes
NextDeps ==
  \/ AO_register_agent("a2", AgentClass["a2"], Capabilities["a2"])
  \/ AO_unregister_agent("a2")
  \/ \E d \in Descriptions, deps \in SUBSET (DOMAIN tasks \cup {UnknownTask}) :
       AO_create_task(d, deps)
  \/ \E t \in TaskIds : AO_assign_task(t, "a2")
  \/ \E t \in TaskIds : AO_execute_task(t)
  \/ \E i \in 1..Len(calls), o \in Outcomes : AO_execute_task_resume(i, o)

SpecDeps == Init /\ [][NextDeps]_vars

\* tasks are executed, also while an earlier call for the same task is
\* suspended in the contract
NextReenter ==
  \/ \E a \in Names : AO_register_agent(a, AgentClass[a], Capabilities[a])
  \/ \E d \in Descriptions : AO_create_task(d, {})
  \/ \E t \in TaskIds : AO_execute_task(t)
  \/ \E t \in TaskIds : AO_execute_task_again(t)
  \/ \E i \in 1..Len(calls), o \in Outcomes : AO_execute_task_resume(i, o)

SpecReenter == Init /\ [][NextReenter]_vars

\* tasks go through their lifecycle: created, assigned, executed, and
\* assigned again during the execution
NextLifecycle ==
  \/ \E a \in Names : AO_register_agent(a, AgentClass[a], Capabilities[a])
  \/ \E d \in Descriptions, deps \in SUBSET (DOMAIN tasks) :
       AO_create_task(d, deps)
  \/ \E t \in TaskIds, a \in Names : AO_assign_task(t, a)
  \/ \E t \in TaskIds, a \in Names \cup {None} : AO_assign_task_again(t, a)
  \/ \E t \in TaskIds : AO_execute_task(t)
  \/ \E i \in 1..Len(calls), o \in Outcomes : AO_execute_task_resume(i, o)

SpecLifecycle == Init /\ [][NextLifecycle]_vars

\* tasks are created and assigned, by name or by selection, while agents come
\* and go, at the orchestrator or at the broker alone
NextAssign ==
  \/ \E a \in Names : AO_register_agent(a, AgentClass[a], Capabilities[a])
  \/ \E a \in Names : AO_unregister_agent(a)
  \/ \E a \in Names : MB_unregister_agent(a)
  \/ \E d \in Descriptions : AO_create_task(d, {})
  \/ \E t \in TaskIds \cup {UnknownTask}, a \in Names \cup {None} :
       AO_assign_task(t, a)

SpecAssign == Init /\ [][NextAssign]_vars

\* tasks are assigned while agents are constructed, registered, unregistered
\* and cleaned up; no agent runs a listener, so cleanup runs through in one step
NextMailbox ==
  \/ \E a \in Names : SubAgent_init(a)
  \/ \E a \in Names : SA_cleanup(a)
  \/ \E a \in Names : AO_register_agent(a, AgentClass[a], Capabilities[a])
  \/ \E a \in Names : AO_unregister_agent(a)
  \/ \E a \in Names : MB_register_agent(a)
  \/ \E a \in Names : MB_unregister_agent(a)
  \/ \E d \in Descriptions : AO_create_task(d, {})
  \/ \E t \in TaskIds, a \in Names \cup {None} : AO_assign_task(t, a)

SpecMailbox == Init /\ [][NextMailbox]_vars

\* one execute_workflow call; agents register at any time, contract calls
\* return in any order
WorkflowInputs ==
  {<<d>> : d \in Descriptions} \cup {<<d, e>> : d \in Descriptions, e \in Descriptions}

NextWorkflow ==
  \/ \E a \in Names : AO_register_agent(a, AgentClass[a], Capabilities[a])
  \/ \E ds \in WorkflowInputs, par \in BOOLEAN : Workflow_start("w", ds, par)
  \/ Workflow_call
  \/ \E i \in 1..Len(calls), o \in Outcomes : Workflow_resume(i, o)
  \/ Workflow_return

SpecWorkflow == Init /\ [][NextWorkflow]_vars

\* the event loop runs execute_workflow whenever it is ready, and every
\* contract call returns or raises
SpecWorkflowFair ==
  /\ SpecWorkflow
  /\ WF_vars(Workflow_call)
  /\ WF_vars(\E i \in 1..Len(calls), o \in Outcomes : Workflow_resume(i, o))
  /\ WF_vars(Workflow_return)

\* a workflow creates, assigns and runs the tasks while agents come and go, a
\* caller assigns by hand, and the workload is asked for at any time
NextWorkload ==
  \/ \E a \in Names : AO_register_agent(a, AgentClass[a], Capabilities[a])
  \/ \E a \in Names : AO_unregister_agent(a)
  \/ \E ds \in WorkflowInputs, par \in BOOLEAN : Workflow_start("w", ds, par)
  \/ Workflow_call
  \/ \E i \in 1..Len(calls), o \in Outcomes : Workflow_resume(i, o)
  \/ Workflow_return
  \/ \E t \in TaskIds, a \in Names : AO_assign_task(t, a)
  \/ AO_get_agent_workload

SpecWorkload == Init /\ [][NextWorkload]_vars

\* an agent with an autonomous loop (a1) and a peer that delegates to it (a2)
LoopAgents == {"a1"}
Peers == {"a2"}
DelegateThreads == {"th1"}

NextLoop ==
  \/ \E a \in LoopAgents \cup Peers : SubAgent_init(a)
  \/ \E s \in Peers, r \in LoopAgents, t \in TaskTexts, th \in DelegateThreads :
       SA_delegate_task(s, r, t, th)
  \/ \E a \in LoopAgents, ty \in HandlerTypes : SA_register_message_handler(a, ty)
  \/ \E a \in LoopAgents : SA_start_autonomous_mode(a)
  \/ \E a \in LoopAgents : SA_stop_autonomous_mode(a)
  \/ \E a \in LoopAgents : SA_cleanup(a)
  \/ \E a \in LoopAgents : SA_cleanup_resume(a)
  \/ \E i \in 1..Len(loops) : Loop_run(i)
  \/ \E i \in 1..Len(loops) : Loop_receive(i)
  \/ \E i \in 1..Len(loops), raised \in BOOLEAN : Loop_handler_return(i, raised)
  \/ \E i \in 1..Len(loops), o \in Outcomes : Loop_contract_return(i, o)
  \/ \E i \in 1..Len(loops) : Loop_cancelled(i)

SpecLoop == Init /\ [][NextLoop]_vars

\* an agent is stopped and started again while a peer sends it requests; the
\* event loop runs every task that is ready and the awaited calls return
NextRestart ==
  \/ \E a \in LoopAgents \cup Peers : SubAgent_init(a)
  \/ \E s \in Peers, r \in LoopAgents, t \in TaskTexts, th \in DelegateThreads :
       SA_delegate_task(s, r, t, th)
  \/ \E a \in LoopAgents : SA_start_autonomous_mode(a)
  \/ \E a \in LoopAgents : SA_stop_autonomous_mode(a)
  \/ \E i \in 1..Len(loops) : Loop_run(i)
  \/ \E i \in 1..Len(loops) : Loop_receive(i)
  \/ \E i \in 1..Len(loops), o \in Outcomes : Loop_contract_return(i, o)
  \/ \E i \in 1..Len(loops) : Loop_cancelled(i)

SpecRestart == Init /\ [][NextRestart]_vars
SpecRestartFair == SpecRestart /\ WF_vars(LoopStep)

\* an agent's mailbox is removed at the broker, directly or by the
\* orchestrator's unregister_agent, while its loop runs and is stopped
NextStarve ==
  \/ ~Spinning /\ \E a \in LoopAgents \cup Peers : SubAgent_init(a)
  \/ ~Spinning /\ \E a \in LoopAgents : AO_register_agent(a, AgentClass[a], Capabilities[a])
  \/ ~Spinning /\ \E a \in LoopAgents : AO_unregister_agent(a)
  \/ ~Spinning /\ \E a \in LoopAgents : MB_unregister_agent(a)
  \/ ~Spinning /\ \E s \in Peers, r \in LoopAgents, t \in TaskTexts, th \in DelegateThreads :
                    SA_delegate_task(s, r, t, th)
  \/ ~Spinning /\ \E a \in LoopAgents : SA_start_autonomous_mode(a)
  \/ ~Spinning /\ \E a \in LoopAgents : SA_stop_autonomous_mode(a)
  \/ ~Spinning /\ \E a \in LoopAgents : SA_cleanup(a)
  \/ ~Spinning /\ \E a \in LoopAgents : SA_cleanup_resume(a)
  \/ ~Spinning /\ \E i \in 1..Len(loops) : Loop_run(i)
  \/ ~Spinning /\ \E i \in 1..Len(loops) : Loop_receive(i)
  \/ ~Spinning /\ \E i \in 1..Len(loops), o \in Outcomes : Loop_contract_return(i, o)
  \/ ~Spinning /\ \E i \in 1..Len(loops) : Loop_cancelled(i)
  \/ ~Spinning /\ \E i \in 1..Len(loops) : Loop_spin(i)

SpecStarve == Init /\ [][NextStarve]_vars
SpecStarveFair ==
  SpecStarve /\ WF_vars(~Spinning /\ (LoopStep \/ \E i \in 1..Len(loops) : Loop_spin(i)))

\* the same agents when nobody stops the loop: no stop_autonomous_mode, no
\* cleanup, hence no cancellation
NextListen ==
  \/ \E a \in LoopAgents \cup Peers : SubAgent_init(a)
  \/ \E s \in Peers, r \in LoopAgents, t \in TaskTexts, th \in DelegateThreads :
       SA_delegate_task(s, r, t, th)
  \/ \E a \in LoopAgents, ty \in HandlerTypes : SA_register_message_handler(a, ty)
  \/ \E a \in LoopAgents : SA_start_autonomous_mode(a)
  \/ \E i \in 1..Len(loops) : Loop_run(i)
  \/ \E i \in 1..Len(loops) : Loop_receive(i)
  \/ \E i \in 1..Len(loops), raised \in BOOLEAN : Loop_handler_return(i, raised)
  \/ \E i \in 1..Len(loops), o \in Outcomes : Loop_contract_return(i, o)

SpecListen == Init /\ [][NextListen]_vars

\* the event loop runs every task that is ready, and the awaited calls
\* (custom handler, execution contract) are taken to return
SpecListenFair == SpecListen /\ WF_vars(LoopStep)

\* an agent that is registered with the orchestrator and runs its loop with
\* default handling gets tasks assigned by the orchestrator and delegated by
\* a peer
NextDispatch ==
  \/ \E a \in Names : SubAgent_init(a)
  \/ AO_register_agent("a2", AgentClass["a2"], Capabilities["a2"])
  \/ \E d \in Descriptions : AO_create_task(d, {})
  \/ \E t \in TaskIds, a \in {"a2", None} : AO_assign_task(t, a)
  \/ \E th \in DelegateThreads : SA_delegate_task("a1", "a2", "job", th)
  \/ SA_start_autonomous_mode("a2")
  \/ \E i \in 1..Len(loops) : Loop_run(i)
  \/ \E i \in 1..Len(loops) : Loop_receive(i)
  \/ \E i \in 1..Len(loops), o \in Outcomes : Loop_contract_return(i, o)

SpecDispatch == Init /\ [][NextDispatch]_vars

\* the orchestrator executes tasks on an agent that runs its loop with
\* default handling; a peer delegates work to the same agent
NextExecListen ==
  \/ \E a \in Names : SubAgent_init(a)
  \/ AO_register_agent("a2", AgentClass["a2"], Capabilities["a2"])
  \/ \E d \in Descriptions : AO_create_task(d, {})
  \/ \E t \in TaskIds : AO_assign_task(t, "a2")
  \/ \E t \in TaskIds : AO_execute_task(t)
  \/ \E i \in 1..Len(calls), o \in Outcomes : AO_execute_task_resume(i, o)
  \/ \E th \in DelegateThreads : SA_delegate_task("a1", "a2", "job", th)
  \/ SA_start_autonomous_mode("a2")
  \/ \E i \in 1..Len(loops) : Loop_run(i)
  \/ \E i \in 1..Len(loops) : Loop_receive(i)
  \/ \E i \in 1..Len(loops), o \in Outcomes : Loop_contract_return(i, o)

SpecExecListen == Init /\ [][NextExecListen]_vars

\* tasks are created, assigned and executed by the orchestrator while the
\* agents hand the same work to each other with delegate_task
NextDelegate ==
  \/ \E a \in Names : SubAgent_init(a)
  \/ \E a \in Names : AO_register_agent(a, AgentClass[a], Capabilities[a])
  \/ \E d \in Descriptions : AO_create_task(d, {})
  \/ \E t \in TaskIds, a \in Names : AO_assign_task(t, a)
  \/ \E t \in TaskIds : AO_execute_task(t)
  \/ \E i \in 1..Len(calls), o \in Outcomes : AO_execute_task_resume(i, o)
  \/ \E s \in Names, r \in Names, d \in Descriptions, th \in DelegateThreads :
       SA_delegate_task(s, r, d, th)

SpecDelegate == Init /\ [][NextDelegate]_vars
SpecDispatchFair == SpecDispatch /\ WF_vars(LoopStep)

\* ------------------------------------------------------ orchestrator claims
\* C3: execute_task on a task with a dependency that is in the task store
\* and is not COMPLETED returns (false, none), leaves the task PENDING with
\* its assignment untouched, starts no contract call and sends no message.
C3_UnmetDependencyResets ==
  [][\A t \in DOMAIN tasks :
       (/\ AO_execute_task(t)
        /\ \E d \in tasks[t].dependencies :
             d \in DOMAIN tasks /\ tasks[d].status # COMPLETED)
         => /\ ret' = Ret("execute_task", FALSE, None, 0)
            /\ tasks'[t].status = PENDING
            /\ tasks'[t].assigned_to = tasks[t].assigned_to
            /\ calls' = calls
            /\ UNCHANGED <<message_queues, message_history, next_msg_id>>]_vars

\* an assigned task was executed while its dependency was not COMPLETED
C3_Witness ==
  /\ ret = Ret("execute_task", FALSE, None, 0)
  /\ \E t \in DOMAIN tasks :
       /\ tasks[t].status = PENDING
       /\ tasks[t].assigned_to # None
       /\ \E d \in tasks[t].dependencies :
            d \in DOMAIN tasks /\ tasks[d].status # COMPLETED

\* C4: once a task is COMPLETED or FAILED no step changes its status.
C4_TerminalStatus ==
  [][\A t \in DOMAIN tasks :
       tasks[t].status \in {COMPLETED, FAILED}
         => tasks'[t].status = tasks[t].status]_vars

\* C5: when the contract call of an execute_task returns a result, the task
\* is COMPLETED with that result and the call returns (true, result); when
\* it raises, the task is FAILED with the error text and a completion
\* timestamp and the call returns (false, none).
C5_ContractOutcomeRecorded ==
  [][\A i \in 1..Len(calls), o \in Outcomes :
       AO_execute_task_resume(i, o)
         => LET after == tasks'[calls[i].task]
            IN IF o.ok
               THEN /\ after.status = COMPLETED
                    /\ after.result = o.val
                    /\ after.completed_at # None
                    /\ ret' = Ret("execute_task", TRUE, o.val, 0)
               ELSE /\ after.status = FAILED
                    /\ after.error = o.val
                    /\ after.completed_at # None
                    /\ ret' = Ret("execute_task", FALSE, None, 0)]_vars

\* C6: in a sequential execute_workflow the task at a later position leaves
\* PENDING, and has a contract call, only after execute_task has returned for
\* every earlier position; and when an agent was registered at the call and
\* no contract call raised, every task of the workflow is COMPLETED when
\* execute_workflow returns.
C6_SequentialWorkflow ==
  (wf.pc # "idle" /\ ~wf.parallel) =>
    /\ \A k \in 1..Len(wf.ids) :
         (\/ tasks[wf.ids[k]].status # PENDING
          \/ \E i \in 1..Len(calls) : calls[i].task = wf.ids[k])
           => \A j \in 1..(k - 1) : j \in DOMAIN wf.results
    /\ (wf.pc = "done" /\ wf.had_agent /\ ~wf.raised)
         => \A k \in 1..Len(wf.ids) : tasks[wf.ids[k]].status = COMPLETED

\* a sequential workflow of two tasks has returned with both COMPLETED
C6_Witness ==
  /\ wf.pc = "done" /\ ~wf.parallel /\ Len(wf.ids) = 2
  /\ wf.had_agent /\ ~wf.raised
  /\ \A k \in 1..2 : tasks[wf.ids[k]].status = COMPLETED
  /\ wf.summary = [total |-> 2, successful |-> 2, failed |-> 0]

\* a contract call has just raised for a task that never completed before
C5_Witness ==
  /\ ret = Ret("execute_task", FALSE, None, 0)
  /\ calls = <<>>
  /\ active_workflows = <<>>
  /\ wf = NoWorkflow
  /\ \E t \in DOMAIN tasks :
       /\ tasks[t].status = FAILED
       /\ tasks[t].error \in Errors
       /\ tasks[t].completed_at # None
       /\ tasks[t].result = None

\* ------------------------------------------------------------ broker claims
\* C1: for every registered recipient b, what b has obtained from its
\* receive calls, followed by what is still queued for b, is exactly the
\* sequence of successful sends addressed to b, in send order: nothing is
\* skipped, duplicated or reordered, whatever the priority fields are.
C1_PerRecipientFifo ==
  \A b \in DOMAIN message_queues :
    recv_log[b] \o message_queues[b] = sent_log[b]

\* b received a low-priority message and after it a high-priority one that
\* was sent later
C1_Witness ==
  \E b \in DOMAIN message_queues :
    /\ Len(recv_log[b]) >= 2
    /\ LET m1 == recv_log[b][1]
           m2 == recv_log[b][2]
       IN /\ m1.priority < m2.priority
          /\ m1.sender # m2.sender
          /\ m1.id < m2.id

\* C2: a send whose recipient is not registered returns false and changes
\* no mailbox, no subscriber list, not the history log, and invokes no
\* subscriber.
C2_UnregisteredSendIsNoOp ==
  [][\A m \in BrokerMessages :
       (MB_send_message(m) /\ m.recipient \notin DOMAIN message_queues)
         => /\ ret' = Ret("send_message", FALSE, None, 0)
            /\ UNCHANGED <<message_queues, subscribers, message_history,
                           notify_log, sent_log>>]_vars

\* a send to an unregistered name has just returned false while the broker
\* held a mailbox with a subscriber and a non-empty history
C2_Witness ==
  /\ ret = Ret("send_message", FALSE, None, 0)
  /\ message_history # <<>>
  /\ \E a \in DOMAIN subscribers : subscribers[a] # <<>>
  /\ DOMAIN message_queues # Names

\* ---------------------------------------------------- autonomous loop claims
\* C7: whatever start_autonomous_mode, stop_autonomous_mode and cleanup calls
\* were made, at most one listener task of an agent is live, that is, able
\* to take a message out of the agent's mailbox.
C7_AtMostOneLiveLoop ==
  \A a \in Names :
    Cardinality({i \in 1..Len(loops) : loops[i].agent = a /\ Live(i)}) <= 1

\* the replies sent for the task-request m: messages to m's sender whose
\* content names m's id
Replies(m) ==
  {j \in 1..Len(sent_log[m.sender]) :
     LET r == sent_log[m.sender][j]
     IN /\ r.message_type \in {TASK_RESPONSE, ERROR_REPORT}
        /\ r.content.task_id = m.id}

InContract(m) ==
  \E i \in 1..Len(loops) : loops[i].pc = "contract" /\ loops[i].msg.id = m.id

\* C8: for every task-request with a non-empty text that a listener dequeued
\* for default handling, the contract is invoked once with that text, and
\* once that call is no longer running exactly one reply went to the sender:
\* a task-response after a success, an error-report after a failure, naming
\* the request's id.
C8_DefaultHandlingReplies ==
  \A k \in 1..Len(contract_log) :
    LET m == contract_log[k].msg
    IN /\ contract_log[k].text = m.content.task
       /\ \A j \in 1..Len(contract_log) : contract_log[j].msg.id = m.id => j = k
       /\ \/ InContract(m)
          \/ /\ Cardinality(Replies(m)) = 1
             /\ \A j \in Replies(m) : \E h \in Range(handled_log) :
                  /\ h.id = m.id
                  /\ sent_log[m.sender][j].message_type =
                       IF h.failed THEN ERROR_REPORT ELSE TASK_RESPONSE

FailureHandled == \E h \in Range(handled_log) : h.failed
Queued(a, k) ==
  \E j \in 1..Len(Get(message_queues, a, <<>>)) : message_queues[a][j].id = k
WasHandled(k) == \E h \in Range(handled_log) : h.id = k

\* C9: while nobody cancels the loop, a message that is in the agent's
\* mailbox once the handling of an earlier message has raised (in the
\* contract or in a custom handler) is eventually dequeued and handled.
C9_FailureKeepsLoopListening ==
  \A k \in 1..MaxMsgs : (FailureHandled /\ Queued("a1", k)) ~> WasHandled(k)

\* one listener task handled a message with a failure and a later message
C9_Witness ==
  \E x \in 1..Len(handled_log), y \in 1..Len(handled_log) :
    /\ x < y
    /\ handled_log[x].failed
    /\ handled_log[x].loop = handled_log[y].loop
    /\ Live(handled_log[x].loop)

\* C10: a listener task that is inside the execution contract stays there
\* until the contract returns, and then sends its reply, whatever
\* stop_autonomous_mode and cleanup calls happen meanwhile.
C10_StopDoesNotInterruptContract ==
  [][\A i \in 1..Len(loops) :
       loops[i].pc = "contract" =>
         \/ loops'[i].pc = "contract"
         \/ /\ loops'[i].pc = "receive"
            /\ LET m == loops[i].msg
               IN Cardinality({j \in 1..Len(sent_log'[m.sender]) :
                    LET r == sent_log'[m.sender][j]
                    IN /\ r.message_type \in {TASK_RESPONSE, ERROR_REPORT}
                       /\ r.content.task_id = m.id}) = 1]_vars

\* ------------------------------------------------------------ receive timeout
\* C11: a receive with a timeout on a registered actor whose mailbox stays
\* empty until the timer fires returns none; the call takes nothing out of
\* the mailbox, so a message sent once the timer has fired is still there
\* and is what the next receive returns (the oldest message not yet received).
C11_TimeoutConsumesNothing ==
  [][\A a \in Names :
       /\ MB_receive_timeout(a) =>
            /\ ret' = Ret("receive_message", FALSE, None, 0)
            /\ message_queues' = message_queues
            /\ recv_log' = recv_log
       /\ MB_receive_wake(a) =>
            /\ Len(recv_log'[a]) = Len(recv_log[a]) + 1
            /\ recv_log'[a] \o message_queues'[a] = sent_log[a]
            /\ ret'.id = sent_log[a][Len(recv_log'[a])].id]_vars

\* a receive timed out, a message sent after the timer fired is in the
\* mailbox, and an earlier receive had returned a message
C11_Witness ==
  /\ ret = Ret("receive_message", FALSE, None, 0)
  /\ receivers["a1"] = "none"
  /\ Get(message_queues, "a1", <<>>) # <<>>
  /\ recv_log["a1"] # <<>>

\* -------------------------------------------------------------- memory claims
\* C12: an add_memory call consolidates exactly when it brings short-term
\* above the limit, so the calls that fill an empty memory to limit + 1
\* entries consolidate once; when long-term stays within max_size, right
\* after a consolidation short_term is the short_term_keep most recently
\* added entries in order and every entry that was in short-term before the
\* truncation with importance >= 3 is in long_term.
C12_Consolidation ==
  [][LET before == short_term
         full == IF Len(short_term') > 0
                 THEN Append(before, short_term'[Len(short_term')])
                 ELSE before
         consolidated == consolidations' = consolidations + 1
     IN mem_adds' = mem_adds + 1 =>
          /\ consolidated <=> Len(before) + 1 = short_term_limit + 1
          /\ ~consolidated => consolidations' = consolidations /\ short_term' = full
          /\ mem_adds' = short_term_limit + 1 => consolidations' = 1
          /\ (consolidated /\ Len(long_term_extended(full, long_term)) <= max_size) =>
               /\ short_term' = SubSeq(full, Len(full) - short_term_keep + 1, Len(full))
               /\ \A k \in 1..Len(short_term') : short_term'[k].id = mem_adds' - short_term_keep + k
               /\ \A k \in 1..Len(full) :
                    full[k].importance >= 3 => full[k] \in Range(long_term')]_vars

\* a second consolidation has happened, long-term never grew beyond
\* max_size, and it holds an important entry that short-term has dropped
C12_Witness ==
  /\ consolidations = 2
  /\ Len(short_term) = short_term_keep
  /\ \E m \in Range(long_term) : m \notin Range(short_term) /\ m.importance >= 3
  /\ Len(long_term) >= 2
  /\ Len(long_term) < max_size

\* C13: load_from_file returns false and leaves short_term, long_term and
\* working_memory as they were when the file is missing or any part of it
\* fails to parse; on success it replaces all three with the file's and
\* returns true.
C13_LoadAllOrNothing ==
  [][Mem_load_from_file =>
       IF mem_ret'.ok
       THEN /\ short_term' = section_entries(mem_file.short_term)
            /\ long_term' = section_entries(mem_file.long_term)
            /\ working_memory' = mem_file.working_memory
            /\ load_ok(mem_file)
       ELSE /\ UNCHANGED <<short_term, long_term, working_memory>>
            /\ ~load_ok(mem_file)]_vars

\* C14: the AgentMemory operations exclude one another, so what any caller
\* can observe between two of them is never a half-applied consolidation
\* (long_term extended, short_term not yet cut back) nor a half-applied load
\* (some of short_term, long_term and working_memory taken from the file and
\* the others not), and the state is the one a serial order of the calls gives.
C14_NoHalfAppliedOperation ==
  [][/\ Len(short_term') <= short_term_limit
     /\ Mem_load_from_file =>
          \/ UNCHANGED <<short_term, long_term, working_memory>>
          \/ /\ short_term' = section_entries(mem_file.short_term)
             /\ long_term' = section_entries(mem_file.long_term)
             /\ working_memory' = mem_file.working_memory]_vars

\* an agent whose capability tags or whose type include "review"
HasReview(a) ==
  \/ \E i \in 1..Len(agent_capabilities[a]) :
       Lower(agent_capabilities[a][i]) = "review"
  \/ ClassContains(agent_type[a], "review")

\* an agent none of whose capability tags occurs in the description and that
\* is no review agent
Unrelated(a, desc) ==
  /\ \A i \in 1..Len(agent_capabilities[a]) :
       Lower(agent_capabilities[a][i]) \notin desc
  /\ ~HasReview(a)

\* C15: with exactly two registered agents, one a review agent (by capability
\* tag or by type) and the other with unrelated capabilities,
\* select_agent_for_task("please review this code") returns the review agent,
\* in either registration order and whatever the type of the other agent.
C15_ReviewAgentSelected ==
  [][AO_select_agent_for_task(ReviewTask) =>
       \A r, o \in Range(agents) :
         (Len(agents) = 2 /\ r # o /\ HasReview(r) /\ Unrelated(o, ReviewTask))
           => selection'.agent = r]_vars

\* C16: select_agent_for_task returns an agent of maximum score; among the
\* agents with that score it returns the one registered earliest; when every
\* agent scores 0 that is the first registered agent; and it returns none
\* exactly when no agent is registered.
C16_SelectionRule ==
  [][\A d \in TaskDescriptions :
       AO_select_agent_for_task(d) =>
         LET r == selection'.agent
         IN /\ (r = None) <=> (agents = <<>>)
            /\ agents # <<>> =>
                 /\ r \in Range(agents)
                 /\ \A a \in Range(agents) :
                      /\ score(a, d) <= score(r, d)
                      /\ score(a, d) = score(r, d)
                           => Index(agents, r) <= Index(agents, a)
                 /\ (\A a \in Range(agents) : score(a, d) = 0)
                      => r = agents[1]]_vars

\* a call has returned the earlier of two agents that tie on a positive score
\* (a capability tag and a type affinity: 10 + 5), the later-named one first
C16_Witness ==
  /\ agents = <<"a2", "a1">>
  /\ selection = [description |-> WriteTestsTask, agent |-> "a2"]
  /\ score("a1", WriteTestsTask) = 25
  /\ score("a2", WriteTestsTask) = 25

\* the stored tasks assigned to agent a that have status st
TasksOf(a, st) ==
  {t \in 1..Len(tasks) : tasks[t].assigned_to = a /\ tasks[t].status = st}

\* C17: get_agent_workload returns, for every registered agent and each of
\* ASSIGNED, IN_PROGRESS, COMPLETED and FAILED, exactly the number of stored
\* tasks assigned to that agent with that status (all zeros for an agent with
\* no tasks), and changes no task, agent or broker state.
C17_WorkloadTally ==
  [][AO_get_agent_workload =>
       /\ DOMAIN workload'.val = Range(agents)
       /\ \A a \in Range(agents) :
            /\ workload'.val[a].assigned = Cardinality(TasksOf(a, ASSIGNED))
            /\ workload'.val[a].in_progress =
                 Cardinality(TasksOf(a, IN_PROGRESS))
            /\ workload'.val[a].completed = Cardinality(TasksOf(a, COMPLETED))
            /\ workload'.val[a].failed = Cardinality(TasksOf(a, FAILED))
       /\ UNCHANGED <<tasks, agents, agent_capabilities, agent_type, calls,
                      brokerVars>>]_vars

\* the workload was returned while one agent had a completed and a failed
\* task and the other registered agent had none
C17_Witness ==
  /\ workload.called
  /\ workload.val = get_agent_workload
  /\ Range(agents) = {"a1", "a2"}
  /\ workload.val["a2"] =
       [assigned |-> 0, in_progress |-> 0, completed |-> 1, failed |-> 1]
  /\ workload.val["a1"] =
       [assigned |-> 0, in_progress |-> 0, completed |-> 0, failed |-> 0]
  /\ \A t \in 1..Len(tasks) : tasks[t].assigned_to = "a2"

\* an entry that passes the three filters of a search
Matching(m, query, tags, min_importance) ==
  /\ m.importance >= min_importance
  /\ tags # <<>> => Range(m.tags) \cap Range(tags) # {}
  /\ query # <<>> => contains(lower(query), lower(m.content))

\* how often x occurs in the list s
Occurrences(s, x) == Cardinality({k \in 1..Len(s) : s[k] = x})

\* C18: search_memories(query, tags, min_importance, limit) returns exactly
\* the first `limit` entries, in (importance descending, timestamp
\* descending) order, of the short-term and long-term entries that have
\* importance >= min_importance, carry one of the requested tags when tags
\* are given and contain the query, case-insensitively, when a query is
\* given; no returned entry violates a filter.  (Every operation that changes
\* the memory overwrites mem_ret, so while mem_ret is a search result the
\* memory is the one that was searched.)
C18_SearchResult ==
  mem_ret.op = "search_memories" =>
    LET Passes(m) == Matching(m, mem_ret.args.query, mem_ret.args.tags,
                              mem_ret.args.min_importance)
        matched == SelectSeq(short_term \o long_term, Passes)
        lim == mem_ret.args.limit
        r == mem_ret.val
    IN /\ Len(r) = IF Len(matched) < lim THEN Len(matched) ELSE lim
       /\ \A i, j \in 1..Len(r) : i < j => ~KeyGreater(r[j], r[i])
       /\ \A x \in Range(r) :
            Passes(x) /\ Occurrences(r, x) <= Occurrences(matched, x)
       /\ \A x \in Range(matched) :
            Occurrences(r, x) < Occurrences(matched, x)
              => \A i \in 1..Len(r) : ~KeyGreater(x, r[i])

\* a search for tag "x" with importance >= 2 and limit 1 has returned the
\* newest of two matching entries, while the memory, consolidated once, also
\* holds an entry with the tag but too little importance and one important
\* enough without the tag
C18_Witness ==
  /\ mem_ret.op = "search_memories"
  /\ mem_ret.args = [query |-> <<>>, tags |-> <<"x">>, min_importance |-> 2,
                     limit |-> 1]
  /\ mem_ret.val = search_memories(<<>>, <<"x">>, 2, 1)
  /\ Len(mem_ret.val) = 1
  /\ long_term # <<>>
  /\ LET all_memories == short_term \o long_term
     IN /\ \E m \in Range(all_memories) :
             /\ Matching(m, <<>>, <<"x">>, 2)
             /\ KeyGreater(mem_ret.val[1], m)
        /\ \E m \in Range(all_memories) : m.tags = <<"x">> /\ m.importance = 1
        /\ \E m \in Range(all_memories) : m.tags = <<>> /\ m.importance = 3

\* C19: save_to_file followed by load_from_file of the same file on a fresh
\* AgentMemory returns true and yields short_term and long_term with the same
\* entries in the same order (id, content, timestamp, importance, tags,
\* metadata) and a working_memory equal to the saved instance's.
C19_SaveLoadRoundTrip ==
  [][(/\ mem_file.exists /\ mem_file.saved
      /\ mem_ret.op = "init"
      /\ Mem_load_from_file) =>
        /\ mem_ret'.ok
        /\ short_term' = mem_file.saved_from.short_term
        /\ long_term' = mem_file.saved_from.long_term
        /\ working_memory' = mem_file.saved_from.working_memory]_vars

\* C20: assign_task(task_id, actor?) returns false and changes neither the
\* Task nor any broker mailbox or the history when the task id is unknown,
\* when no agent can be selected because none is registered, or when the named
\* actor is not registered with the orchestrator; otherwise it sets
\* assigned_to to the resolved actor and status to ASSIGNED and returns true
\* in the same step, without receiving anything.
C20_AssignTaskFrame ==
  [][\A t \in TaskIds \cup {UnknownTask}, a \in Names \cup {None} :
       AO_assign_task(t, a) =>
         IF \/ t \notin DOMAIN tasks
            \/ a = None /\ agents = <<>>
            \/ a # None /\ a \notin Range(agents)
         THEN /\ ~ret'.ok
              /\ UNCHANGED <<tasks, message_queues, message_history>>
         ELSE /\ ret'.ok
              /\ tasks'[t].assigned_to =
                   (IF a = None THEN select_agent_for_task(tasks[t].description)
                    ELSE a)
              /\ tasks'[t].assigned_to \in Range(agents)
              /\ tasks'[t].status = ASSIGNED
              /\ \A u \in DOMAIN tasks : u # t => tasks'[u] = tasks[u]
              /\ UNCHANGED <<recv_log, calls>>]_vars

\* an assignment to an actor that is not registered has just returned false
\* and left its task pending, after an earlier one assigned the other task
\* and queued its request
C20_Witness ==
  /\ ret = Ret("assign_task", FALSE, None, 0)
  /\ agents = <<"a2">>
  /\ Len(tasks) = 2
  /\ tasks[1].status = ASSIGNED /\ tasks[1].assigned_to = "a2"
  /\ tasks[2].status = PENDING /\ tasks[2].assigned_to = None
  /\ Len(Get(message_queues, "a2", <<>>)) = 1
  /\ Len(message_history) = 1

\* C21: a send to a registered recipient with subscribers s1..sn enqueues the
\* message in the recipient's mailbox, records it in the history, invokes
\* every subscriber exactly once in subscription order even when earlier
\* subscribers raise, and returns true.
C21_RaisingSubscriberDoesNotBlock ==
  [][\A m \in NotifyMessages :
       (MB_send_message(m) /\ m.recipient \in DOMAIN message_queues) =>
         LET cbs == Get(subscribers, m.recipient, <<>>)
         IN /\ ret' = Ret("send_message", TRUE, None, 0)
            /\ message_queues' =
                 [message_queues EXCEPT ![m.recipient] = Append(@, m)]
            /\ message_history' # <<>>
            /\ message_history'[Len(message_history')] = m
            /\ Len(notify_log') = Len(notify_log) + Len(cbs)
            /\ \A i \in 1..Len(notify_log) : notify_log'[i] = notify_log[i]
            /\ \A i \in 1..Len(cbs) :
                 notify_log'[Len(notify_log) + i] = <<cbs[i], m.id>>]_vars

\* a send has returned true after a raising subscriber and, after it, a
\* second subscriber were both invoked, and the message is in the mailbox
C21_Witness ==
  /\ ret = Ret("send_message", TRUE, None, 0)
  /\ Get(subscribers, "a2", <<>>) = <<"cb_raise", "cb_ok">>
  /\ Len(notify_log) >= 2
  /\ LET n == Len(notify_log)
         k == notify_log[n][2]
     IN /\ notify_log[n - 1] = <<"cb_raise", k>>
        /\ notify_log[n] = <<"cb_ok", k>>
        /\ "a2" \in DOMAIN message_queues
        /\ \E i \in 1..Len(message_queues["a2"]) : message_queues["a2"][i].id = k
        /\ message_history[Len(message_history)].id = k

\* the orchestrator's task-request k waits in the mailbox of an agent whose
\* listener is running
AssignedToListener(k) ==
  \E a \in DOMAIN message_queues :
    /\ listener[a] # 0
    /\ \E j \in 1..Len(message_queues[a]) :
         /\ message_queues[a][j].id = k
         /\ message_queues[a][j].sender = Orchestrator
         /\ message_queues[a][j].message_type = TASK_REQUEST

\* the contract was invoked for request k with the task's description
ExecutedForRequest(k) ==
  \E j \in 1..Len(contract_log) :
    /\ contract_log[j].msg.id = k
    /\ contract_log[j].msg.sender = Orchestrator
    /\ contract_log[j].text = contract_log[j].msg.content.description

\* the handling of request k has ended after its contract call, that is,
\* with the task-response or error-report handed to the broker
RepliedToRequest(k) ==
  \E j \in 1..Len(handled_log) :
    /\ handled_log[j].id = k
    /\ \E c \in 1..Len(contract_log) : contract_log[c].msg.id = k

\* C22: when the orchestrator assigns a task to an agent that runs its
\* autonomous loop with default handling, the agent eventually dequeues the
\* task-request, invokes its execution contract with the task's description
\* and sends a task-response or an error-report back to the sender.
C22_AssignedTaskIsExecuted ==
  \A k \in 1..MaxOrchMsgs :
    AssignedToListener(k) ~> (ExecutedForRequest(k) /\ RepliedToRequest(k))

\* C23: in sequential and in parallel mode and for any pattern of contract
\* successes and failures, the summary execute_workflow returns is consistent
\* with the task store: total is the number of descriptions, successful the
\* number of the workflow's tasks that ended COMPLETED, failed is total minus
\* successful; and in parallel mode a contract failure of one task keeps no
\* other task of the workflow from being executed.
C23_WorkflowSummary ==
  wf.pc = "done" =>
    LET completed == {k \in 1..Len(wf.ids) : tasks[wf.ids[k]].status = COMPLETED}
    IN /\ wf.summary.total = Len(active_workflows["w"])
       /\ wf.summary.total = Len(wf.ids)
       /\ wf.summary.successful = Cardinality(completed)
       /\ wf.summary.failed = wf.summary.total - wf.summary.successful
       /\ \A k \in 1..Len(wf.ids) : tasks[wf.ids[k]].status \in {COMPLETED, FAILED}
       /\ (wf.parallel /\ wf.had_agent) =>
            \A k \in 1..Len(wf.ids) : tasks[wf.ids[k]].started_at # None

\* a parallel workflow of two tasks has returned after the contract of the
\* first task raised and the contract of the second succeeded
C23_Witness ==
  /\ wf.pc = "done" /\ wf.parallel /\ wf.raised /\ Len(wf.ids) = 2
  /\ tasks[wf.ids[1]].status = FAILED /\ tasks[wf.ids[1]].started_at # None
  /\ tasks[wf.ids[2]].status = COMPLETED
  /\ wf.summary = [total |-> 2, successful |-> 1, failed |-> 1]

\* C24: conversation_history(a, b, limit) returns only messages of the
\* history log exchanged between a and b, in either direction, ordered
\* most-recent-first, and at most `limit` of them (the `limit` most recent
\* ones), for every limit >= 0.
C24_ConversationHistory ==
  [][conversation'.called /\ conversation' # conversation =>
       LET a == conversation'.agent1
           b == conversation'.agent2
           r == conversation'.val
           Exchanged(msg) == {msg.sender, msg.recipient} = {a, b}
           exchanged == SelectSeq(message_history, Exchanged)
       IN /\ \A i \in 1..Len(r) : Exchanged(r[i]) /\ r[i] \in Range(message_history)
          /\ Len(r) <= conversation'.limit
          /\ Len(r) = IF Len(exchanged) < conversation'.limit
                      THEN Len(exchanged) ELSE conversation'.limit
          /\ \A i \in 1..Len(r) : r[i] = exchanged[Len(exchanged) + 1 - i]]_vars

\* C25: registering a name that is already registered with the broker
\* changes nothing: the messages queued in its mailbox, their order and its
\* subscriber list stay as they are, whether the registration comes from the
\* broker's register_agent, from building a SubAgent or from the
\* orchestrator's register_agent.
C25_RegisterIsIdempotent ==
  [][\A a \in Names :
       (/\ a \in DOMAIN message_queues
        /\ \/ MB_register_agent(a)
           \/ SubAgent_init(a)
           \/ AO_register_agent(a, AgentClass[a], Capabilities[a]))
       => /\ message_queues' = message_queues
          /\ subscribers' = subscribers
          /\ message_history' = message_history]_vars

\* an agent built and then registered by the orchestrator, so registered with
\* the broker twice, holding queued messages and subscribers
C25_Witness ==
  /\ "a2" \in constructed
  /\ "a2" \in Range(agents)
  /\ "a2" \in DOMAIN message_queues
  /\ Len(message_queues["a2"]) = MaxMsgs
  /\ Len(subscribers["a2"]) = MaxSubscribers

C27_LongTermEviction ==
  [][mem_adds' = mem_adds + 1 =>
       LET st == Append(short_term, short_term'[Len(short_term')])
           Promoted(m) == m.importance >= 3
           had == long_term \o SelectSeq(st, Promoted)
           Evicted(m) == Occurrences(long_term', m) < Occurrences(had, m)
       IN /\ Len(long_term') <= max_size
          /\ (consolidations' # consolidations /\ Len(had) > max_size) =>
               /\ Len(long_term') = max_size
               /\ \A m \in Range(long_term') :
                    Occurrences(long_term', m) <= Occurrences(had, m)
               /\ \A e \in Range(had), r \in Range(long_term') :
                    Evicted(e) =>
                      /\ e.importance <= r.importance
                      /\ e.importance = r.importance => e.timestamp <= r.timestamp]_vars

\* right after a truncating consolidation: long_term is full, it holds an
\* entry of the highest importance, and an important entry that short_term
\* still has was evicted from it
C27_Witness ==
  /\ consolidations = 2
  /\ Len(short_term) = short_term_keep
  /\ Len(long_term) = max_size
  /\ \E r \in Range(long_term) : r.importance = 5
  /\ \E m \in Range(short_term) : m.importance = 3 /\ m \notin Range(long_term)

\* C28: execute_task invokes the execution contract for a task only if every
\* id in the task's dependency list refers to a stored task whose status is
\* COMPLETED; an id that resolves to no stored task does not count as a
\* completed dependency.
C28_ContractOnlyAfterDependencies ==
  [][Len(calls') > Len(calls) =>
       LET t == calls'[Len(calls')].task
       IN \A d \in tasks[t].dependencies :
            d \in DOMAIN tasks /\ tasks[d].status = COMPLETED]_vars

\* C29: execute_task on a task none of whose dependencies holds it back, and
\* which is unassigned while no agent is registered, or whose assigned agent
\* is not registered with the orchestrator any more, sets the task FAILED
\* with a non-empty error text, returns (false, none) and invokes no
\* execution contract.
C29_NoAgentFails ==
  [][\A t \in TaskIds :
       (/\ AO_execute_task(t)
        /\ t \in DOMAIN tasks
        /\ \A d \in tasks[t].dependencies :
             d \in DOMAIN tasks => tasks[d].status = COMPLETED
        /\ \/ tasks[t].assigned_to = None /\ agents = <<>>
           \/ tasks[t].assigned_to # None /\ tasks[t].assigned_to \notin Range(agents))
       => /\ tasks'[t].status = FAILED
          /\ tasks'[t].error \notin {None, ""}
          /\ ret' = Ret("execute_task", FALSE, None, 0)
          /\ calls' = calls]_vars

\* both cases have happened: a task executed while unassigned with no agent
\* registered, and a task executed after its agent was unregistered
C29_Witness ==
  /\ agents = <<>>
  /\ ret = Ret("execute_task", FALSE, None, 0)
  /\ \E t \in DOMAIN tasks, u \in DOMAIN tasks :
       /\ tasks[t].status = FAILED /\ tasks[t].assigned_to = None
       /\ tasks[t].error = "No suitable agent available"
       /\ tasks[u].status = FAILED /\ tasks[u].assigned_to = "a2"
       /\ tasks[u].error = "No suitable agent available"

\* C30: for a task that is not yet COMPLETED or FAILED, every status change
\* moves forward in the order PENDING < ASSIGNED < IN_PROGRESS <
\* {COMPLETED, FAILED}, except execute_task's reset to PENDING on an unmet
\* dependency; assign_task on a task that is IN_PROGRESS neither moves it
\* back to ASSIGNED nor changes its assigned_to.
C30_StatusMovesForward ==
  [][\A t \in DOMAIN tasks :
       LET rank(st) == CASE st = PENDING -> 1
                         [] st = ASSIGNED -> 2
                         [] st = IN_PROGRESS -> 3
                         [] OTHER -> 4
           unmet_reset ==
             /\ tasks'[t].status = PENDING
             /\ ret' = Ret("execute_task", FALSE, None, 0)
             /\ \E d \in tasks[t].dependencies :
                  d \in DOMAIN tasks /\ tasks[d].status # COMPLETED
       IN /\ (tasks[t].status \notin {COMPLETED, FAILED}
                /\ tasks'[t].status # tasks[t].status)
               => rank(tasks'[t].status) > rank(tasks[t].status) \/ unmet_reset
          /\ (tasks[t].status = IN_PROGRESS /\ ret'.op = "assign_task"
                /\ next_msg_id' # next_msg_id)
               => /\ tasks'[t].status # ASSIGNED
                  /\ tasks'[t].assigned_to = tasks[t].assigned_to]_vars

\* --------------------------------------------------------- restart claims
\* listener task i has been stopped: its agent's handle no longer names it
Stopped(i) == i <= Len(loops) /\ listener[loops[i].agent] # i

\* C31: stop_autonomous_mode clears the agent's loop handle and the stopped
\* loop eventually terminates; a loop created by a later
\* start_autonomous_mode dequeues and handles the messages in the agent's
\* mailbox, as long as it is not stopped in turn.
C31_StopThenRestart ==
  /\ [][\A a \in LoopAgents : SA_stop_autonomous_mode(a) => listener'[a] = 0]_vars
  /\ \A i \in 1..MaxLoops : Stopped(i) ~> (i <= Len(loops) /\ loops[i].pc = "done")
  /\ \A i \in 2..MaxLoops, k \in 1..MaxMsgs :
       (i <= Len(loops) /\ ~Stopped(i) /\ Queued(loops[i].agent, k))
         ~> (WasHandled(k) \/ Stopped(i))

\* C32: a stored task that an agent hands to another actor with
\* delegate_task, instead of executing it, takes the DELEGATED branch: once
\* the request is in the other actor's mailbox the task's status is
\* DELEGATED.
C32_DelegatedBranch ==
  [][\A t \in DOMAIN tasks :
       (\E s \in Names, r \in DOMAIN message_queues, th \in DelegateThreads :
          s # r /\ SA_delegate_task(s, r, tasks[t].description, th))
       => tasks'[t].status = DELEGATED]_vars

\* --------------------------------------------------------- recall claims
\* C33: add_memory never places an entry with importance < 3 into
\* long_term; a consolidation drops from both tiers every entry with
\* importance < 3 that is not among the short_term_keep most recent
\* short-term entries; a dropped entry never comes back, and what
\* search_memories and get_recent_memories return is taken from the tiers.
C33_LowImportanceDropped ==
  [][LET tiers == Range(short_term) \cup Range(long_term)
         tiers_after == Range(short_term') \cup Range(long_term')
     IN /\ \A m \in Range(long_term') : m.importance >= 3
        /\ \A m \in tiers_after : m \in tiers \/ m.id = mem_adds + 1
        /\ consolidations' # consolidations =>
             LET st == Append(short_term, short_term'[Len(short_term')])
             IN \A k \in 1..(Len(st) - short_term_keep) :
                  st[k].importance < 3 => st[k] \notin tiers_after
        /\ mem_ret'.op \in {"search_memories", "get_recent_memories"} =>
             Range(mem_ret'.val) \subseteq tiers_after]_vars

\* after one consolidation some entry is in neither tier, and the memory was
\* asked for its recent entries and returned all it holds
C33_Witness ==
  /\ consolidations = 1
  /\ \E k \in 1..mem_adds :
       \A m \in Range(short_term) \cup Range(long_term) : m.id # k
  /\ long_term # <<>>
  /\ mem_ret.op = "get_recent_memories"
  /\ Len(mem_ret.val) = Len(short_term) + Len(long_term)

\* C40: after any sequence of add_memory calls no entry id occurs twice in
\* long_term, and search_memories and get_recent_memories never return the
\* same entry twice.
C40_NoDuplicates ==
  /\ \A i, j \in 1..Len(long_term) : long_term[i].id = long_term[j].id => i = j
  /\ mem_ret.op \in {"search_memories", "get_recent_memories"} =>
       \A i, j \in 1..Len(mem_ret.val) :
         mem_ret.val[i].id = mem_ret.val[j].id => i = j

\* C34: when every contract call returns, a running execute_workflow,
\* sequential or parallel, eventually returns, and then every task it
\* created is COMPLETED or FAILED; while it runs with no contract call in
\* flight it is not waiting for anything.
C34_WorkflowTerminates ==
  /\ [](wf.pc = "running" /\ calls = <<>> =>
          /\ ~wf.awaiting
          /\ wf.next <= Len(wf.ids) \/ DOMAIN wf.results = 1..Len(wf.ids))
  /\ (wf.pc = "running") ~>
       (/\ wf.pc = "done"
        /\ \A k \in 1..Len(wf.ids) : tasks[wf.ids[k]].status \in {COMPLETED, FAILED})

\* a sequential workflow of two tasks has returned after the contract call
\* of its first task raised and the second succeeded
C34_Witness ==
  /\ wf.pc = "done" /\ ~wf.parallel /\ wf.raised /\ Len(wf.ids) = 2
  /\ tasks[wf.ids[1]].status = FAILED
  /\ tasks[wf.ids[2]].status = COMPLETED
  /\ calls = <<>>

\* C35: for any task at most one contract invocation is in flight at any
\* time, and a call that returns sets a result or error only on a task that
\* has none from an earlier call.
C35_OneContractCallPerTask ==
  [][/\ \A t \in DOMAIN tasks :
          Cardinality({i \in 1..Len(calls') : calls'[i].task = t}) <= 1
     /\ Len(calls') < Len(calls) =>
          \A t \in DOMAIN tasks :
            tasks'[t] # tasks[t] => tasks[t].status = IN_PROGRESS]_vars
\* C36: when execute_task runs a task whose assigned agent runs its autonomous
\* loop with default handling, the contract is invoked once for the task: the
\* listener never invokes it for the task-request assign_task enqueued; the
\* invocation is the one execute_task itself makes, which is in flight while
\* the task is IN_PROGRESS.
C36_ContractOnceUnderLoop ==
  \A t \in DOMAIN tasks :
    LET byLoop == {j \in 1..Len(contract_log) :
                     /\ contract_log[j].msg.sender = Orchestrator
                     /\ contract_log[j].msg.content.task_id = t}
        inFlight == {i \in 1..Len(calls) : calls[i].task = t}
    IN /\ byLoop = {}
       /\ tasks[t].status = IN_PROGRESS => inFlight # {}

\* a task was executed to completion by the agent whose live listener has
\* meanwhile dequeued the task's request from the mailbox
C36_Witness ==
  \E t \in DOMAIN tasks :
    /\ tasks[t].status = COMPLETED
    /\ tasks[t].assigned_to \in DOMAIN listener
    /\ listener[tasks[t].assigned_to] # 0
    /\ \E j \in 1..Len(recv_log[tasks[t].assigned_to]) :
         LET m == recv_log[tasks[t].assigned_to][j]
         IN /\ m.sender = Orchestrator
            /\ m.message_type = TASK_REQUEST
            /\ m.content.task_id = t
            /\ WasHandled(m.id)
\* C37: whenever assign_task returns true, a task-request for that task has
\* been enqueued in the assigned agent's mailbox, after any sequence of
\* orchestrator register/unregister, broker register/unregister and cleanup
\* calls.
C37_AssignedMeansEnqueued ==
  [][\A t \in TaskIds, a \in Names \cup {None} :
       (AO_assign_task(t, a) /\ ret'.ok) =>
         LET r == tasks'[t].assigned_to
         IN /\ r \in DOMAIN message_queues'
            /\ \E j \in 1..Len(message_queues'[r]) :
                 /\ message_queues'[r][j].id = next_msg_id
                 /\ message_queues'[r][j].message_type = TASK_REQUEST
                 /\ message_queues'[r][j].content.task_id = t]_vars
\* C38: a listener reaches a suspension point in every iteration, so it never
\* keeps the event loop to itself, and once a cancellation is requested of it
\* it eventually terminates; also when the agent's mailbox was removed from
\* the broker while the loop was running.
C38_LoopAlwaysSuspends ==
  /\ [](\A i \in 1..MaxLoops : i <= Len(loops) => loops[i].pc # "spin")
  /\ \A i \in 1..MaxLoops :
       (i <= Len(loops) /\ loops[i].cancel) ~> (i <= Len(loops) /\ loops[i].pc = "done")

\* C39: a callback added with subscribe(actor, callback) is invoked on every
\* later successful send to that actor until the actor is unregistered, in
\* every order of subscribe and register calls: subscribe adds the callback,
\* only an unregister of the actor takes a callback away, and a successful
\* send invokes every callback the actor has.
C39_SubscriptionLasts ==
  [][/\ \A cb \in NotifyCallbacks :
          MB_subscribe_more("a2", cb) => cb \in Range(Get(subscribers', "a2", <<>>))
     /\ \A a \in Names, cb \in NotifyCallbacks :
          (/\ cb \in Range(Get(subscribers, a, <<>>))
           /\ ~(a \in DOMAIN message_queues /\ a \notin DOMAIN message_queues'))
          => cb \in Range(Get(subscribers', a, <<>>))
     /\ \A m \in NotifyMessages :
          (MB_send_message(m) /\ ret'.ok) =>
            \A cb \in Range(Get(subscribers, m.recipient, <<>>)) :
              <<cb, m.id>> \in Range(notify_log')]_vars
====
